---- MODULE Spec2Model ----
(***************************************************************************)
(* The canvas daemon (packages/daemon/src/server/index.ts) and its browser  *)
(* session manager (BrowserManager), as a state machine.                    *)
(*                                                                          *)
(* One action is one run of the event loop: a socket event, the resumption  *)
(* of a handler at the await it was suspended on, or a timer callback.  A   *)
(* run executes the code synchronously up to the next await that waits for  *)
(* an external operation; the operation takes effect when the handler is    *)
(* resumed.  An await on an already settled promise only yields to other    *)
(* microtasks, so it does not end the run.  A data event carries one line.  *)
(***************************************************************************)
EXTENDS Integers, Sequences, FiniteSets, TLC

\* ------------------------------------------------------------------ bounds
MaxTasks == 2         \* lines received in Spec
MaxSessionTasks == 2  \* lines received in SpecSession
MaxWatchTasks == 2    \* lines received in SpecWatch and SpecUi, after connect
MaxStopTasks == 2     \* lines received in SpecStop
MaxPageTasks == 2     \* lines received in SpecPage, after connect
MaxCandTasks == 1     \* lines received in SpecCand, after connect
MaxExecTasks == 2     \* lines received in SpecExec, after connect
MaxEvents == 2     \* page and file-watcher events delivered to the daemon
MaxBursts == 2     \* bursts of signals started by DOM mutations in SpecUi
MaxLiveCaps == 1   \* live screenshots in flight at once
MaxDiffTasks == 2   \* lines received in SpecDiff, after connect
MaxPixelTasks == 1  \* lines received in SpecPixel, after connect
MaxTime == 3        \* the host's clock runs from 1 to MaxTime
MaxDomTasks == 1    \* lines received in SpecDom, after connect
MaxHaltTasks == 2   \* lines received in SpecHalt, after connect
MaxClientIds == 2   \* request ids generateRequestId draws from
MaxClientSends == 3 \* send() calls on the client
MaxClientLines == 3 \* lines the client receives
MaxSnapLines == 4   \* lines of the page's accessibility snapshot
MaxIndent == 2      \* deepest nesting of a snapshot line

\* ------------------------------------------------------- program constants
uiReadyQuietWindowMs == 250
uiReadyMaxWaitMs == 5000
DefaultIntervalMs == 2000
MinIntervalMs == 250

PROTOCOL_VERSION_MISMATCH == 1006
TIMEOUT_SELECTOR == 2002
TIMEOUT_BROWSER == 2003
NAVIGATION_TIMEOUT == 2004
NAVIGATION_FAILED == 2005
PAGE_NOT_READY == 2006
BROWSER_NOT_READY == 2007
EXECUTE_TIMEOUT == 2008
SELECTOR_NOT_FOUND == 3002
INPUT_INVALID == 5001
INPUT_MISSING == 5002
INPUT_TIMESTAMP_INVALID == 5003
INPUT_ENUM_INVALID == 5004
INTERNAL_ERROR == 9001
EXECUTE_FAILED == 9003

DEFAULT_DOM_DEPTH == 5

Null == 0 - 1      \* a cleared timer handle
NoObj == 0         \* a null browser, context or page reference
ReqUnknown == 0    \* the sentinel id 'req_unknown'

Conns == {"c1", "c2"}

\* protocol versions as <<major, minor>>
PROTOCOL_VERSION == <<1, 0>>
Versions == {<<1, 0>>, <<1, 1>>, <<2, 0>>}

isCompatible(client, daemon) == client[1] = daemon[1]

VARIABLES
  daemonUp,          \* the process is alive
  sock,              \* sock[c]: "new", "open" or "closed" (the socket itself)
  connections,       \* DaemonServer.connections
  tasks,             \* one record per received line: the handler run for it
  out,               \* out[c]: the lines written to connection c, in order
  nextSubscriberId,
  watchSubscribers,  \* set of [id, socket]
  watchLive,
  watchIntervalMs,
  watchIntervalTimer,\* Null, or the period the running interval was created with
  fsWatcher,         \* a file watcher is installed
  uiReadyTimer,      \* Null, or ms left on the quiet-window timer
  uiReadyMaxTimer,   \* Null, or ms left on the max-wait timer
  uiReadyObserverInstalled,
  observerPage,      \* page that got __canvas_notify_dom_mutation exposed
  bm,                \* BrowserManager fields: browser, context, page, engine
  pw,                \* the automation layer: open browsers, contexts, pages
  liveCaps,          \* captureLiveScreenshot runs suspended on the screenshot
  evSeq,             \* watch events emitted so far
  mode,              \* which specification runs: it fixes the bounds in force
  burstAge,          \* ms since the first signal of the pending burst
  signals,           \* page, file-watcher and interval signals so far
  lastEmit,          \* the last emitWatchEvent run
  burstReady,        \* ui_ready events emitted for the current burst
  lastFire,          \* the last firing of a UI-readiness timer
  host,              \* the host: its clock, what the page renders, .canvas
  lastSignal,        \* the last UI event or mutation signal: its type, the
                     \* ms since, and a bit that flips with every signal
  daemonClient       \* a DaemonClient of the CLI: its socket, its pending
                     \* requests, the promises send() returned, the lines
                     \* it received

vars == <<daemonUp, sock, connections, tasks, out, nextSubscriberId,
          watchSubscribers, watchLive, watchIntervalMs, watchIntervalTimer,
          fsWatcher, uiReadyTimer, uiReadyMaxTimer, uiReadyObserverInstalled,
          observerPage, bm, pw, liveCaps, evSeq, mode, burstAge, signals,
          lastEmit, burstReady, lastFire, host, lastSignal, daemonClient>>

connVars == <<sock, connections>>
watchVars == <<nextSubscriberId, watchSubscribers, watchLive, watchIntervalMs,
               watchIntervalTimer>>
uiVars == <<uiReadyTimer, uiReadyMaxTimer, uiReadyObserverInstalled,
            observerPage, burstAge, burstReady, lastFire>>
browserVars == <<bm, pw>>

\* ------------------------------------------------------------ wire records
\* the DiffResult of a response that carries none; a path that is null
NoPath == <<>>
NoResult == [init |-> FALSE, pixels |-> 0, regions |-> <<>>]

\* a DomNode: its role and its children; the root of a response without one
DomNode(role, children) == [role |-> role, children |-> children]
NoTree == DomNode("", <<>>)

\* A line written by the daemon: a response (kind "resp") or a pushed watch
\* event (kind "event").  task is the handler run that wrote a response.
Resp(id, ok, code, task, val) ==
  [kind |-> "resp", id |-> id, ok |-> ok, code |-> code, task |-> task,
   val |-> val, type |-> "", param |-> "", cands |-> <<>>,
   res |-> NoResult, category |-> "", retryable |-> FALSE, root |-> NoTree]

Ev(type, seq) ==
  [kind |-> "event", id |-> ReqUnknown, ok |-> TRUE, code |-> 0, task |-> 0,
   val |-> seq, type |-> type, param |-> "", cands |-> <<>>,
   res |-> NoResult, category |-> "", retryable |-> FALSE, root |-> NoTree]

successResponse(id, task, val) == Resp(id, TRUE, 0, task, val)

\* error.data.category of the Failures the handlers write as literals
literalCategory(code) ==
  IF code \in 5000..5999 THEN "input"
  ELSE IF code \in {PAGE_NOT_READY, BROWSER_NOT_READY} THEN "browser"
  ELSE IF code = NAVIGATION_FAILED THEN "navigation"
  ELSE IF code = PROTOCOL_VERSION_MISMATCH THEN "daemon"
  ELSE "internal"

\* a Failure written as a literal: of these only NAVIGATION_FAILED has
\* retryable true
Failure(id, task, code) ==
  [Resp(id, FALSE, code, task, 0) EXCEPT
     !.category = literalCategory(code),
     !.retryable = (code = NAVIGATION_FAILED)]

\* createTimeoutError: category 'timeout', retryable unless the caller says
\* otherwise, and no caller does
createTimeoutError(id, task, code) ==
  [Failure(id, task, code) EXCEPT !.category = "timeout", !.retryable = TRUE]

\* createSelectorError that marks the error as final
createSelectorErrorFinal(id, task, candidates) ==
  [Failure(id, task, SELECTOR_NOT_FOUND) EXCEPT
     !.category = "selector",
     !.param = "selector",
     !.cands = SubSeq(candidates, 1, IF Len(candidates) < 5
                                     THEN Len(candidates) ELSE 5)]

\* createSelectorError: category 'selector', retryable, param 'selector',
\* the suggestion lists the candidates
createSelectorError(id, task, candidates) ==
  [Failure(id, task, SELECTOR_NOT_FOUND) EXCEPT
     !.category = "selector",
     !.retryable = TRUE,
     !.param = "selector",
     !.cands = SubSeq(candidates, 1, IF Len(candidates) < 5
                                     THEN Len(candidates) ELSE 5)]

\* a Failure whose error.data.param names a parameter
FailureParam(id, task, code, param) ==
  [Failure(id, task, code) EXCEPT !.param = param]

\* ------------------------------------------------------ execute timeouts
\* params.timeoutMs ?? 5_000
DefaultExecuteTimeoutMs == 5000

\* a timeoutMs a request may carry, and the time a script that does not
\* yield keeps the event loop
ShortTimeoutMs == DefaultExecuteTimeoutMs \div 5
SyncBlockMs == 2 * DefaultExecuteTimeoutMs

\* -------------------------------------------------------- received lines
Methods == {"ping", "connect", "disconnect", "screenshot.viewport",
            "watch.subscribe", "watch.unsubscribe", "watch.configure",
            "daemon.stop", "bogus"}

\* kind: "badjson" (JSON.parse throws), "nonenv" (valid JSON without the
\* envelope's meta object, such as {} or 42), "req" (a request envelope).
\* url: connect's url is present; eng: connect's browser ("" when absent);
\* retries; wp: connect's watchPaths is non-empty; subId: watch.unsubscribe's
\* subscriberId (0 when absent); live: "", "on", "off"; intervalMs (0 absent);
\* code: execute's code is present; script: what the code does; timeoutMs
\* (0 absent); sel: the selector, a sequence of tokens (<<>> absent); level:
\* a11y's level ("" absent); since: diff's since, a sequence of tokens (<<>>
\* absent); thr: diff's threshold in tenths (Null absent); depth: dom's and
\* context's depth, <<d>>, or <<>> when absent.
Line(kind, method, ver) ==
  [kind |-> kind, method |-> method, ver |-> ver, url |-> TRUE, eng |-> "",
   retries |-> 0, wp |-> FALSE, subId |-> 0, live |-> "", intervalMs |-> 0,
   code |-> TRUE, script |-> "async", timeoutMs |-> 0, sel |-> <<>>,
   level |-> "", since |-> <<>>, thr |-> Null, depth |-> <<>>]

Req(m) == Line("req", m, PROTOCOL_VERSION)

\* the lines of Spec: every kind of line, every method, every version
Lines ==
  {Line("badjson", "", <<0, 0>>), Line("nonenv", "", <<0, 0>>)}
  \cup {Line("req", m, v) : m \in Methods, v \in {<<1, 0>>, <<2, 0>>}}
  \cup {Line("req", "ping", <<1, 1>>)}
  \cup {[Req("connect") EXCEPT !.retries = 1],
        [Req("screenshot.viewport") EXCEPT !.retries = 1],
        [Req("watch.unsubscribe") EXCEPT !.subId = 1]}

\* the lines of SpecSession: the session requests, with their parameters
SessionLines ==
  {Req("connect"), Req("disconnect"), Req("screenshot.viewport"),
   [Req("connect") EXCEPT !.url = FALSE],
   [Req("connect") EXCEPT !.eng = "firefox"],
   [Req("connect") EXCEPT !.retries = 1],
   [Req("connect") EXCEPT !.wp = TRUE],
   [Req("screenshot.viewport") EXCEPT !.retries = 1]}

\* the lines of SpecStop: daemon.stop among other requests
StopLines == {Req("ping"), Req("connect"), Req("watch.subscribe"),
              Req("daemon.stop")}

\* the lines of SpecPage: the requests that use the connected page
PageLines ==
  {Req("disconnect"), Req("screenshot.viewport"),
   [Req("screenshot.viewport") EXCEPT !.retries = 1],
   [Req("screenshot.element") EXCEPT !.sel = <<"#", "a">>],
   [Req("styles") EXCEPT !.sel = <<".", "a">>],
   [Req("styles") EXCEPT !.sel = <<"div">>, !.retries = 1],
   Req("styles"), Req("describe"),
   [Req("describe") EXCEPT !.sel = <<"div">>],
   Req("dom"), Req("context"), Req("a11y"),
   [Req("a11y") EXCEPT !.level = "AAAA"],
   Req("execute"), [Req("execute") EXCEPT !.code = FALSE], Req("diff"),
   [Req("connect") EXCEPT !.url = FALSE],
   [Req("connect") EXCEPT !.eng = "opera"],
   Req("watch.unsubscribe")}

\* the lines of SpecCand: selector requests, by the kind of their selector
CandLines ==
  {[Req("styles") EXCEPT !.sel = <<".", "a">>],
   [Req("styles") EXCEPT !.sel = <<"#", "A">>],
   [Req("describe") EXCEPT !.sel = <<"div">>],
   [Req("describe") EXCEPT !.sel = <<"button">>],
   Req("dom")}

\* new Date().toISOString() at clock value n: YYYY-MM-DDTHH:mm:ss.sssZ as a
\* sequence of tokens; the clock value is the seconds field
TimeTokens == <<"01", "02", "03", "04">>

toISOString(n) ==
  <<"2026", "-", "01", "-", "14", "T", "10", ":", "00", ":", TimeTokens[n],
    ".", "000", "Z">>

\* the since values of SpecDiff: absent, 'last', a word, an ISO timestamp
SinceTime == 2
Sinces == {<<>>, <<"last">>, <<"yesterday">>, toISOString(SinceTime)}

\* the lines of SpecDiff: diff with each since and threshold, screenshots
DiffLines ==
  {[Req("diff") EXCEPT !.since = s] : s \in Sinces}
  \cup {[Req("diff") EXCEPT !.thr = 9], Req("screenshot.viewport")}

\* thresholds in tenths, and the lines of SpecPixel: diff with a threshold
Thresholds == 0..10
PixelLines == {[Req("diff") EXCEPT !.thr = th] : th \in {0, 1, 2, 9, 10}}

\* the depths of SpecDom, and its lines: dom and context with each depth
Depths == {<<>>, <<0 - 1>>, <<0>>, <<1>>, <<2>>, <<3>>}
DomLines == {[Req(m) EXCEPT !.depth = d] : m \in {"dom", "context"},
                                           d \in Depths}

\* the lines of SpecHalt: daemon.stop among the watch requests
HaltLines == {Req("daemon.stop"), Req("watch.subscribe"),
              [Req("watch.configure") EXCEPT !.live = "on"]}

\* the lines of SpecExec: execute with and without timeoutMs, with a script
\* that awaits and with one that never yields
ExecLines ==
  {Req("execute"),
   [Req("execute") EXCEPT !.timeoutMs = ShortTimeoutMs],
   [Req("execute") EXCEPT !.script = "sync"],
   [Req("execute") EXCEPT !.code = FALSE]}

\* the lines of SpecWatch: the watch requests, with their parameters
WatchLines ==
  {Req("watch.subscribe"), Req("disconnect"),
   [Req("watch.configure") EXCEPT !.live = "on"],
   [Req("watch.configure") EXCEPT !.live = "off"],
   [Req("watch.configure") EXCEPT !.live = "on", !.intervalMs = 500],
   [Req("watch.configure") EXCEPT !.intervalMs = 100]}
  \cup {[Req("watch.unsubscribe") EXCEPT !.subId = s] : s \in 1..2}

\* The handler run for line l, received as the n-th line, on connection c.
\* pc is the await the run is suspended on, or "done".  via records which
\* part of handleMessage took the line.  attempt counts the retries made;
\* msg is how the last browser call the run awaited in its retry loop
\* settled ("" before the first).  timer is the time left on handleExecute's
\* timeout timer (Null when it is not set), age the time since the line was
\* received, counted while the run waits in handleExecute's race; q is how
\* the page queries of the run's candidate search settled.  stamp is the
\* clock value takeScreenshot or takeDiff named its capture file with, base
\* the baseline path takeDiff resolved; after records that a diff had
\* succeeded, and the page had not been repainted since, when the line was
\* received.
Task(n, c, l, pc, via) ==
  [conn |-> c, id |-> IF l.kind = "req" THEN n ELSE ReqUnknown, line |-> l,
   pc |-> pc, via |-> via, tgt |-> NoObj, attempt |-> 0, msg |-> "",
   timer |-> Null, age |-> 0, q |-> [counts |-> {}, scan |-> FALSE],
   stamp |-> 0, base |-> NoPath, after |-> FALSE]

\* ----------------------------------------------------- selector candidates
\* A selector is a sequence of tokens: <<"button">> is the selector button,
\* <<".", "a", "b">> the selector .ab, <<"#", "a">> the selector #a; a class
\* name or an id is a sequence of letters.  A document is a record: els, the
\* common selectors that match in it; classes and ids, the class names and
\* the ids it contains, in document order.
COMMON_SELECTORS ==
  <<(<<"body">>), (<<"main">>), (<<"header">>), (<<"footer">>), (<<"nav">>),
    (<<"section">>), (<<"article">>), (<<"aside">>), (<<"h1">>), (<<"h2">>),
    (<<"h3">>), (<<"button">>), (<<"a">>), (<<"input">>), (<<"form">>),
    (<<"[role=\"main\"]">>), (<<"[role=\"navigation\"]">>),
    (<<"[role=\"banner\"]">>), (<<"[role=\"contentinfo\"]">>)>>

DefaultDoc == [els |-> {(<<"body">>)}, classes |-> <<>>, ids |-> <<>>]

\* String.prototype.toLowerCase, on the letters the names are made of
toLowerCase(name) ==
  [i \in DOMAIN name |-> IF name[i] = "A" THEN "a"
                         ELSE IF name[i] = "B" THEN "b" ELSE name[i]]

\* x.includes(y) for names: y occurs in x as a contiguous part
nameIncludes(x, y) ==
  \E i \in 0..(Len(x) - Len(y)) : SubSeq(x, i + 1, i + Len(y)) = y

\* the first n elements of a list
Take(list, n) == SubSeq(list, 1, IF Len(list) < n THEN Len(list) ELSE n)

\* [...new Set(list)]: the first occurrence of each element, in order
RECURSIVE Distinct(_)
Distinct(list) ==
  IF list = <<>> THEN <<>>
  ELSE LET front == Distinct(SubSeq(list, 1, Len(list) - 1))
           last == list[Len(list)]
       IN IF \E i \in DOMAIN front : front[i] = last THEN front
          ELSE Append(front, last)

\* the function getSelectorCandidates evaluates in the page: the names
\* related to the failed selector by a substring match, at most 5
similarSelectors(d, failed) ==
  LET searchTerm == toLowerCase(Tail(failed))
      Related(c) == \/ nameIncludes(toLowerCase(c), searchTerm)
                    \/ nameIncludes(searchTerm, toLowerCase(c))
      names == IF failed[1] = "." THEN d.classes ELSE d.ids
      found == Take(SelectSeq(names, Related), 5)
  IN [i \in DOMAIN found |-> <<failed[1]>> \o found[i]]

\* a candidate search that lists the similar names before the common
\* selectors
getSelectorCandidatesSimilarFirst(d, open, failed, Q) ==
  IF ~open THEN [throws |-> FALSE, list |-> <<>>]
  ELSE LET Counted(sel) == sel # failed /\ sel \notin Q.counts /\ sel \in d.els
           common == SelectSeq(COMMON_SELECTORS, Counted)
       IN IF failed # <<>> /\ failed[1] \in {".", "#"}
          THEN IF Q.scan THEN [throws |-> TRUE, list |-> <<>>]
               ELSE [throws |-> FALSE,
                     list |-> Take(Distinct(similarSelectors(d, failed) \o
                                            common), 5)]
          ELSE [throws |-> FALSE, list |-> Take(Distinct(common), 5)]

\* BrowserManager.getSelectorCandidates on document d for the failed
\* selector; open: a page is set and not closed; Q.counts: the common
\* selectors whose locator(...).count() rejects; Q.scan: page.evaluate
\* rejects.  A rejected count is skipped, a rejected evaluate is not caught.
getSelectorCandidates(d, open, failed, Q) ==
  IF ~open THEN [throws |-> FALSE, list |-> <<>>]
  ELSE LET Counted(sel) == sel # failed /\ sel \notin Q.counts /\ sel \in d.els
           common == SelectSeq(COMMON_SELECTORS, Counted)
       IN IF failed # <<>> /\ failed[1] \in {".", "#"}
          THEN IF Q.scan THEN [throws |-> TRUE, list |-> <<>>]
               ELSE [throws |-> FALSE,
                     list |-> Take(Distinct(common \o
                                            similarSelectors(d, failed)), 5)]
          ELSE [throws |-> FALSE, list |-> Take(Distinct(common), 5)]

\* ------------------------------------------------------ automation layer
PageIsOpen(w, p) == \E r \in w.pages : r.id = p

CtxIsOpen(w, x) == \E r \in w.ctxs : r.id = x

ClosePage(w, p) == [w EXCEPT !.pages = {r \in @ : r.id # p}]

CloseContext(w, x) ==
  [w EXCEPT !.ctxs = {r \in @ : r.id # x}, !.pages = {r \in @ : r.ctx # x}]

CloseBrowserObj(w, b) ==
  LET gone == {r.id : r \in {q \in w.ctxs : q.br = b}} IN
  [w EXCEPT !.browsers = @ \ {b},
            !.ctxs = {r \in @ : r.br # b},
            !.pages = {r \in @ : r.ctx \notin gone}]

\* BrowserManager.isConnected
isConnected(b, w) == b.page # NoObj /\ PageIsOpen(w, b.page)

\* Where a BrowserManager call stands after running synchronously from some
\* point: the manager's fields, the await it is suspended on (or "return" /
\* "throw" when it ran to its end), and the object the awaited call is on.
At(b, pc, tgt) == [bm |-> b, pc |-> pc, tgt |-> tgt]

\* BrowserManager.connect from 'if (!this.browser) throw' on
connectFromBrowserCheck(b) ==
  IF b.browser = NoObj THEN At(b, "throw", NoObj)
  ELSE At(b, "new_ctx", b.browser)

\* ... from 'if (this.context) await this.context.close()' on
connectFromContextClose(b) ==
  IF b.context # NoObj THEN At(b, "close_ctx", b.context)
  ELSE connectFromBrowserCheck(b)

\* ... from 'if (this.page) await this.page.close()' on
connectFromPageClose(b) ==
  IF b.page # NoObj THEN At(b, "close_page", b.page)
  ELSE connectFromContextClose(b)

\* ... from 'if (!this.browser) await this.launchBrowser()' on
connectFromLaunch(b) ==
  IF b.browser = NoObj THEN At(b, "launch", NoObj)
  ELSE connectFromPageClose(b)

\* The caller's code after closeBrowser: connect goes on to launch, stop to
\* its final part.
afterCloseBrowser(b, caller) ==
  IF caller = "connect" THEN connectFromLaunch(b) ELSE At(b, "return", NoObj)

\* BrowserManager.closeBrowser from 'if (this.browser)' on
closeBrowserFromBrowser(b, caller) ==
  IF b.browser # NoObj THEN At(b, "cb_br", b.browser)
  ELSE afterCloseBrowser(b, caller)

\* ... from 'if (this.context)' on
closeBrowserFromContext(b, caller) ==
  IF b.context # NoObj THEN At(b, "cb_ctx", b.context)
  ELSE closeBrowserFromBrowser(b, caller)

\* BrowserManager.closeBrowser
closeBrowser(b, caller) ==
  IF b.page # NoObj THEN At(b, "cb_page", b.page)
  ELSE closeBrowserFromContext(b, caller)

\* BrowserManager.connect, up to its first await
connect(b, eng) ==
  IF eng # "" /\ eng # b.engine
  THEN closeBrowser([b EXCEPT !.engine = eng], "connect")
  ELSE connectFromLaunch(b)

\* BrowserManager.disconnect from 'if (this.context)' on
disconnectFromContext(b) ==
  IF b.context # NoObj THEN At(b, "d_ctx", b.context)
  ELSE At(b, "return", NoObj)

\* a disconnect that insists on a page to close
disconnectStrict(b) ==
  IF b.page # NoObj THEN At(b, "d_page", b.page)
  ELSE At(b, "throw", NoObj)

\* BrowserManager.disconnect, up to its first await
disconnect(b) ==
  IF b.page # NoObj THEN At(b, "d_page", b.page)
  ELSE disconnectFromContext(b)

\* The resumption of a BrowserManager call suspended at pc on object tgt:
\* the awaited operation takes effect on the automation layer w, and the
\* code runs on to the next await.  Gives [bm, pc, tgt, pw].
Resumed(a, w) == [bm |-> a.bm, pc |-> a.pc, tgt |-> a.tgt, pw |-> w]

resumeManager(b, w, pc, tgt, caller) ==
  CASE pc = "cb_page" ->
         Resumed(closeBrowserFromContext([b EXCEPT !.page = NoObj], caller),
                 ClosePage(w, tgt))
    [] pc = "cb_ctx" ->
         Resumed(closeBrowserFromBrowser([b EXCEPT !.context = NoObj], caller),
                 CloseContext(w, tgt))
    [] pc = "cb_br" ->
         Resumed(afterCloseBrowser([b EXCEPT !.browser = NoObj], caller),
                 CloseBrowserObj(w, tgt))
    [] pc = "launch" ->
         Resumed(connectFromPageClose([b EXCEPT !.browser = w.next]),
                 [w EXCEPT !.browsers = @ \cup {w.next}, !.next = @ + 1])
    [] pc = "close_page" ->
         Resumed(connectFromContextClose(b), ClosePage(w, tgt))
    [] pc = "close_ctx" ->
         Resumed(connectFromBrowserCheck(b), CloseContext(w, tgt))
    [] pc = "new_ctx" ->
         IF tgt \in w.browsers
         THEN Resumed(At([b EXCEPT !.context = w.next], "new_page", w.next),
                      [w EXCEPT !.ctxs = @ \cup {[id |-> w.next, br |-> tgt]},
                                !.next = @ + 1])
         ELSE Resumed(At(b, "throw", NoObj), w)
    [] pc = "new_page" ->
         IF CtxIsOpen(w, tgt)
         THEN Resumed(At([b EXCEPT !.page = w.next], "goto", w.next),
                      [w EXCEPT !.pages = @ \cup {[id |-> w.next, ctx |-> tgt]},
                                !.next = @ + 1])
         ELSE Resumed(At(b, "throw", NoObj), w)
    [] pc = "d_page" ->
         Resumed(disconnectFromContext([b EXCEPT !.page = NoObj]),
                 ClosePage(w, tgt))
    [] pc = "d_ctx" ->
         Resumed(At([b EXCEPT !.context = NoObj], "return", NoObj),
                 CloseContext(w, tgt))

\* ------------------------------------------------------------ watch engine
\* DaemonServer.startLiveInterval: the interval timer after the call
startLiveInterval(live, timer, ms) ==
  IF ~live THEN timer
  ELSE IF timer # Null THEN timer
  ELSE ms

\* DaemonServer.stopLiveInterval
stopLiveInterval(timer) == Null

\* DaemonServer.registerWatchSubscriber: the subscriber map after the call
registerWatchSubscriber(subs, n, c) == subs \cup {[id |-> n, socket |-> c]}

\* DaemonServer.unregisterWatchSubscriber: [subs, timer, removed]
unregisterWatchSubscriber(subs, timer, subId) ==
  LET left == {s \in subs : s.id # subId} IN
  [subs |-> left,
   timer |-> IF left = {} THEN stopLiveInterval(timer) ELSE timer,
   removed |-> left # subs]

\* emitWatchEvent's loop: F are the subscribers whose socket.write throws.
\* The subscribers the line is written to, and the map after the loop.
emitRecipients(subs, F) == subs \ F

\* a failed write that drops every subscriber
emitRemainingNone(subs, F) == IF F = {} THEN subs ELSE {}

emitRemaining(subs, F) == subs \ F

\* socket.write is taken to throw only on a socket that is no longer open
FailSets == SUBSET {s \in watchSubscribers : sock[s.socket] # "open"}

Copies(x, n) == [i \in 1..n |-> x]

\* The fan-out of emitWatchEvent (the loop over the subscribers)
EmitFanOut(type, F) ==
  /\ out' = [c \in Conns |->
               out[c] \o Copies(Ev(type, evSeq + 1),
                   Cardinality({s \in emitRecipients(watchSubscribers, F) :
                                  s.socket = c}))]
  /\ watchSubscribers' = emitRemaining(watchSubscribers, F)
  /\ evSeq' = evSeq + 1
  /\ lastEmit' = [n |-> evSeq + 1, type |-> type, before |-> watchSubscribers,
                  failed |-> F]

\* a reset that restarts the max-wait timer with every signal
resetUiReadyTimersSliding(quiet, max) ==
  [quiet |-> uiReadyQuietWindowMs, max |-> uiReadyMaxWaitMs]

\* resetUiReadyTimers leaving a pending quiet-window timer as it is
resetUiReadyTimersOnce(quiet, max) ==
  [quiet |-> IF quiet = Null THEN uiReadyQuietWindowMs ELSE quiet,
   max |-> IF max = Null THEN uiReadyMaxWaitMs ELSE max]

\* DaemonServer.resetUiReadyTimers: [quiet, max] after the call
resetUiReadyTimers(quiet, max) ==
  [quiet |-> uiReadyQuietWindowMs,
   max |-> IF max = Null THEN uiReadyMaxWaitMs ELSE max]

Idle == uiReadyTimer = Null /\ uiReadyMaxTimer = Null

\* a signal reaches resetUiReadyTimers
ResetTimers ==
  /\ uiReadyTimer' = resetUiReadyTimers(uiReadyTimer, uiReadyMaxTimer).quiet
  /\ uiReadyMaxTimer' = resetUiReadyTimers(uiReadyTimer, uiReadyMaxTimer).max
  /\ burstAge' = IF Idle THEN 0 ELSE burstAge
  /\ burstReady' = IF Idle THEN 0 ELSE burstReady
  /\ UNCHANGED lastFire

\* a clear that leaves the max-wait timer pending
ClearTimersQuietOnly ==
  /\ uiReadyTimer' = Null
  /\ UNCHANGED uiReadyMaxTimer

\* DaemonServer.clearUiReadyTimers
ClearTimers ==
  /\ uiReadyTimer' = Null
  /\ uiReadyMaxTimer' = Null

\* DaemonServer.scheduleUiReady
scheduleUiReady ==
  IF bm.page = NoObj
  THEN UNCHANGED uiVars
  ELSE /\ uiReadyObserverInstalled' = TRUE
       /\ observerPage' = IF uiReadyObserverInstalled THEN observerPage
                          ELSE bm.page
       /\ ResetTimers

\* DaemonServer.captureLiveScreenshot up to its await: the runs suspended on
\* takeScreenshot after the call
captureLiveScreenshot(n) ==
  IF ~watchLive \/ ~isConnected(bm, pw) THEN n
  ELSE IF n < MaxLiveCaps THEN n + 1 ELSE n

\* an emitWatchEvent that schedules ui_ready on a file change as well
emitWatchEventOnFileChange(type, F, caps) ==
  /\ EmitFanOut(type, F)
  /\ CASE type \in {"hmr_complete", "ui_changed", "file_changed"} ->
            scheduleUiReady
       [] type = "ui_ready" -> TRUE
       [] OTHER -> UNCHANGED uiVars
  /\ liveCaps' = IF type = "ui_ready" THEN captureLiveScreenshot(caps)
                 ELSE caps

\* DaemonServer.emitWatchEvent, called with caps live captures in flight.
\* A ui_ready event is emitted by a timer callback, which clears the timers
\* itself right after the call.
emitWatchEvent(type, F, caps) ==
  /\ EmitFanOut(type, F)
  /\ CASE type \in {"hmr_complete", "ui_changed"} -> scheduleUiReady
       [] type = "ui_ready" -> TRUE
       [] OTHER -> UNCHANGED uiVars
  /\ liveCaps' = IF type = "ui_ready" THEN captureLiveScreenshot(caps)
                 ELSE caps

\* ------------------------------------------------------ the accessibility tree
\* A non-blank line of locator.ariaSnapshot(): the nesting of its list item
\* (two spaces each) and the word after "- ".  Every non-blank line is a
\* list item; a link's "- /url: ..." line is one whose word is no \w+.
Words == {"main", "button", "/url"}
SnapLine(indent, word) == [indent |-> indent, word |-> word]
SnapLines == {SnapLine(i, w) : i \in 0..MaxIndent, w \in Words}

\* /^(\s*)- (\w+).../ matches the line
matchesNode(l) == l.word # "/url"

Region == DomNode("region", <<>>)

RECURSIVE parseNode(_, _, _, _), parseChildren(_, _, _, _, _, _)

\* parseAriaYaml's parseNode(lineIndex, currentDepth): [node, next]
parseNode(lines, maxDepth, lineIndex, currentDepth) ==
  IF lineIndex > Len(lines) \/ currentDepth > maxDepth
  THEN [node |-> Region, next |-> lineIndex]
  ELSE IF ~matchesNode(lines[lineIndex])
  THEN [node |-> Region, next |-> lineIndex + 1]
  ELSE IF currentDepth >= maxDepth
  THEN [node |-> DomNode(lines[lineIndex].word, <<>>), next |-> lineIndex + 1]
  ELSE LET c == parseChildren(lines, maxDepth, lines[lineIndex].indent,
                              currentDepth, lineIndex + 1, <<>>)
       IN [node |-> DomNode(lines[lineIndex].word, c.children),
           next |-> c.next]

\* parseNode's while loop over the lines nested deeper than indent
parseChildren(lines, maxDepth, indent, currentDepth, nextIndex, children) ==
  IF nextIndex > Len(lines) \/ lines[nextIndex].indent <= indent
  THEN [children |-> children, next |-> nextIndex]
  ELSE LET r == parseNode(lines, maxDepth, nextIndex, currentDepth + 1)
       IN parseChildren(lines, maxDepth, indent, currentDepth, r.next,
                        Append(children, r.node))

RECURSIVE parseTopLevel(_, _, _, _)

\* parseAriaYaml's loop over the top-level nodes.  The loop's condition and
\* body depend on index only, so a pass that leaves index as it was repeats
\* for ever, pushing a node each time: hang.
parseTopLevel(lines, maxDepth, index, topLevelNodes) ==
  IF index > Len(lines)
  THEN [hang |-> FALSE, nodes |-> topLevelNodes]
  ELSE LET r == parseNode(lines, maxDepth, index, 1)
       IN IF r.next = index
          THEN [hang |-> TRUE, nodes |-> topLevelNodes]
          ELSE parseTopLevel(lines, maxDepth, r.next,
                             Append(topLevelNodes, r.node))

\* BrowserManager.parseAriaYaml: [hang, root]
parseAriaYaml(lines, maxDepth) ==
  IF Len(lines) = 0 THEN [hang |-> FALSE, root |-> Region]
  ELSE LET top == parseTopLevel(lines, maxDepth, 1, <<>>)
       IN IF top.hang THEN [hang |-> TRUE, root |-> NoTree]
          ELSE IF Len(top.nodes) = 1
          THEN [hang |-> FALSE, root |-> top.nodes[1]]
          ELSE [hang |-> FALSE, root |-> DomNode("region", top.nodes)]

\* options.depth ?? DEFAULT_DOM_DEPTH
depthOf(l) == IF l.depth = <<>> THEN DEFAULT_DOM_DEPTH ELSE l.depth[1]

\* line l may follow the lines s in a snapshot: the first item is not
\* nested, an item is nested at most one level deeper than the item before
\* it, and a /url line belongs to a link and has nothing nested in it
MayFollow(s, l) ==
  IF s = <<>> THEN l.indent = 0 /\ matchesNode(l)
  ELSE /\ l.indent <= s[Len(s)].indent + 1
       /\ ~matchesNode(l) =>
            l.indent = s[Len(s)].indent + 1 /\ matchesNode(s[Len(s)])
       /\ ~matchesNode(s[Len(s)]) => l.indent <= s[Len(s)].indent

RECURSIVE SnapshotsUpTo(_)

\* the snapshots of at most n lines
SnapshotsUpTo(n) ==
  IF n = 0 THEN {<<>>}
  ELSE LET P == SnapshotsUpTo(n - 1)
       IN P \cup {Append(s, l) : s \in {x \in P : Len(x) = n - 1},
                                 l \in SnapLines}

WellFormed(s) == \A i \in 1..Len(s) : MayFollow(SubSeq(s, 1, i - 1), s[i])

Snapshots == {s \in SnapshotsUpTo(MaxSnapLines) : WellFormed(s)}

\* the snapshot of the page the other specifications connect to
DefaultSnapshot == <<SnapLine(0, "main"), SnapLine(1, "button")>>

\* ---------------------------------------------------------- the diff engine
\* An image is w x h gray levels, row by row; pixel i (from 1) has the
\* coordinates x = (i - 1) % w and y = (i - 1) \div w.
Image(w, h, px) == [w |-> w, h |-> h, px |-> px]

\* the gray levels of the images of SpecPixel, and its images
Levels == {0, 30, 255}
PixelImages ==
  {Image(2, 2, <<a, b, c, d>>) : a \in Levels, b \in Levels, c \in Levels,
                                 d \in Levels}

\* what the page may render in SpecDiff
Views ==
  {Image(2, 2, <<0, 0, 0, 0>>), Image(2, 2, <<0, 0, 0, 255>>),
   Image(2, 2, <<0, 30, 0, 255>>), Image(1, 1, <<0>>)}

DefaultView == Image(2, 2, <<0, 0, 0, 0>>)

\* s.replace(/x/g, to) for the characters x of from
replaceAll(s, from, to) ==
  [i \in 1..Len(s) |-> IF s[i] \in from THEN to ELSE s[i]]

\* nowIso.replace(/[:.]/g, '-')
timestampSafe(n) == replaceAll(toISOString(n), {":", "."}, "-")

\* `${timestampSafe}.png` and baseline.png, names in .canvas/screenshots
shotName(n) == timestampSafe(n) \o <<".png">>
baselinePng == <<"baseline", ".png">>

\* Date.parse: the time of a string in the ISO format, NaN for any other
NaN == 0 - 1
IsoSeparators == <<"", "-", "", "-", "", "T", "", ":", "", ":", "", ".", "", "Z">>

DateParse(s) ==
  IF /\ Len(s) = Len(IsoSeparators)
     /\ \A i \in 1..Len(s) :
          IF IsoSeparators[i] # "" THEN s[i] = IsoSeparators[i]
          ELSE s[i] \in {"2026", "01", "14", "10", "00", "000"}
                        \cup {TimeTokens[k] : k \in 1..Len(TimeTokens)}
     /\ \E k \in 1..Len(TimeTokens) : s[11] = TimeTokens[k]
  THEN CHOOSE k \in 1..Len(TimeTokens) : s[11] = TimeTokens[k]
  ELSE NaN

\* writeFileSync / copyFileSync: the directory with name holding img
writeFile(files, name, img) ==
  [x \in DOMAIN files \cup {name} |-> IF x = name THEN img ELSE files[x]]

\* readdirSync(dir).filter(name => name.endsWith('.png') &&
\* name !== 'baseline.png')
artifacts(files) ==
  {x \in DOMAIN files : x[Len(x)] = ".png" /\ x # baselinePng}

\* the order of sort() on the names the daemon gives its captures: they
\* differ in the seconds field only
nameLess(a, b) ==
  \E i, j \in 1..Len(TimeTokens) :
     a[11] = TimeTokens[i] /\ b[11] = TimeTokens[j] /\ i < j

\* pickMostRecentScreenshot: the last name in sort order, or null
pickMostRecentScreenshot(files) ==
  IF artifacts(files) = {} THEN NoPath
  ELSE CHOOSE x \in artifacts(files) :
         \A y \in artifacts(files) : y = x \/ nameLess(y, x)

\* name.replace(/\.png$/, '').replace(/-/g, ':') and Date.parse of it
parsedName(x) == DateParse(replaceAll(SubSeq(x, 1, Len(x) - 1), {"-"}, ":"))

\* pickScreenshotAtOrBefore: of the names that parse to a time at or before
\* targetMs, the one with the greatest time, or null
pickScreenshotAtOrBefore(files, targetMs) ==
  LET candidates == {x \in artifacts(files) :
                       parsedName(x) # NaN /\ parsedName(x) <= targetMs}
  IN IF candidates = {} THEN NoPath
     ELSE CHOOSE x \in candidates :
            \A y \in candidates : parsedName(y) <= parsedName(x)

\* resolveBaselinePath: threw when since is not 'last' and does not parse;
\* the marker always records baseline.png
resolveBaselinePath(files, marker, since) ==
  IF since # <<>> /\ since # <<"last">>
  THEN IF DateParse(since) = NaN
       THEN [threw |-> TRUE, path |-> NoPath]
       ELSE [threw |-> FALSE,
             path |-> pickScreenshotAtOrBefore(files, DateParse(since))]
  ELSE IF marker /\ baselinePng \in DOMAIN files
  THEN [threw |-> FALSE, path |-> baselinePng]
  ELSE [threw |-> FALSE, path |-> pickMostRecentScreenshot(files)]

\* options.threshold ?? 0.1, in tenths
DefaultThreshold == 1
thresholdOf(l) == IF l.thr = Null THEN DefaultThreshold ELSE l.thr

\* pixelmatch on gray pixels a and b: the YIQ colour delta 0.5053 (a - b)^2
\* exceeds maxDelta = 35215 threshold^2 (both sides times 10000, th in
\* tenths).  No pixel of an image of at most 2 x 2 pixels passes the
\* library's anti-aliasing test, which asks for a darker and a brighter
\* neighbour that each have three equal neighbours.
mismatched(a, b, th) == 5053 * (a - b) * (a - b) > 3521500 * th * th

\* pixelmatch(img1, img2, output, width, height, {threshold}): the count, and
\* the alpha channel written to output: 255 on a mismatched pixel; fill says
\* whether the library also draws the unchanged pixels
pixelmatch(img1, img2, th, fill) ==
  LET bad == {i \in 1..Len(img1.px) : mismatched(img1.px[i], img2.px[i], th)}
  IN [count |-> Cardinality(bad),
      alpha |-> [i \in 1..Len(img1.px) |->
                   IF i \in bad \/ fill THEN 255 ELSE 0]]

\* computeRegionsFromDiffMask with width maxX - minX and height maxY - minY
computeRegionsExclusive(w, alpha, mismatchedPixels) ==
  LET lit == {i \in 1..Len(alpha) : alpha[i] > 0}
      xs == {(i - 1) % w : i \in lit}
      ys == {(i - 1) \div w : i \in lit}
      minX == CHOOSE x \in xs : \A z \in xs : x <= z
      maxX == CHOOSE x \in xs : \A z \in xs : z <= x
      minY == CHOOSE y \in ys : \A z \in ys : y <= z
      maxY == CHOOSE y \in ys : \A z \in ys : z <= y
  IN IF mismatchedPixels = 0 \/ lit = {} THEN <<>>
     ELSE <<[x |-> minX, y |-> minY, width |-> maxX - minX,
             height |-> maxY - minY]>>

\* computeRegionsFromDiffMask: the bounding box of the pixels with alpha > 0
computeRegionsFromDiffMask(w, alpha, mismatchedPixels) ==
  LET lit == {i \in 1..Len(alpha) : alpha[i] > 0}
      xs == {(i - 1) % w : i \in lit}
      ys == {(i - 1) \div w : i \in lit}
      minX == CHOOSE x \in xs : \A z \in xs : x <= z
      maxX == CHOOSE x \in xs : \A z \in xs : z <= x
      minY == CHOOSE y \in ys : \A z \in ys : y <= z
      maxY == CHOOSE y \in ys : \A z \in ys : z <= y
  IN IF mismatchedPixels = 0 \/ lit = {} THEN <<>>
     ELSE <<[x |-> minX, y |-> minY, width |-> maxX - minX + 1,
             height |-> maxY - minY + 1]>>

\* computeDiff comparing only images of equal dimensions and reporting no
\* mismatch for the others
computeDiffLenient(baseline, current, th, fill) ==
  IF baseline.w # current.w \/ baseline.h # current.h
  THEN [threw |-> FALSE, result |-> NoResult, diff |-> <<>>]
  ELSE LET m == pixelmatch(baseline, current, th, fill) IN
       [threw |-> FALSE, diff |-> m.alpha,
        result |-> [init |-> FALSE, pixels |-> m.count,
                    regions |-> computeRegionsFromDiffMask(
                                  baseline.w, m.alpha, m.count)]]

\* computeDiff calling pixelmatch with the threshold 0
computeDiffExact(baseline, current, th, fill) ==
  IF baseline.w # current.w \/ baseline.h # current.h
  THEN [threw |-> TRUE, result |-> NoResult, diff |-> <<>>]
  ELSE LET m == pixelmatch(baseline, current, 0, fill) IN
       [threw |-> FALSE, diff |-> m.alpha,
        result |-> [init |-> FALSE, pixels |-> m.count,
                    regions |-> computeRegionsFromDiffMask(
                                  baseline.w, m.alpha, m.count)]]

\* computeDiff: threw when the dimensions differ; diff is the alpha channel
\* of the diff image it writes
computeDiff(baseline, current, th, fill) ==
  IF baseline.w # current.w \/ baseline.h # current.h
  THEN [threw |-> TRUE, result |-> NoResult, diff |-> <<>>]
  ELSE LET m == pixelmatch(baseline, current, th, fill) IN
       [threw |-> FALSE, diff |-> m.alpha,
        result |-> [init |-> FALSE, pixels |-> m.count,
                    regions |-> computeRegionsFromDiffMask(
                                  baseline.w, m.alpha, m.count)]]

\* the line appendDiffManifest appends for a result
manifestRecord(base, cur, result) ==
  [baselinePath |-> base, currentPath |-> cur,
   mismatchedPixels |-> result.pixels, baselineInitialized |-> result.init]

\* appendDiffManifest rewriting the last line of manifest.jsonl
appendDiffManifestOverLast(manifest, record) ==
  IF manifest = <<>> THEN <<record>>
  ELSE [manifest EXCEPT ![Len(manifest)] = record]

\* appendDiffManifest: appendFileSync of one line
appendDiffManifest(manifest, record) == Append(manifest, record)

\* takeDiff's result without a baseline, with baselineInitialized false
firstDiffResultAsDiff == [init |-> FALSE, pixels |-> 0, regions |-> <<>>]

\* takeDiff's result when no baseline resolved
firstDiffResult == [init |-> TRUE, pixels |-> 0, regions |-> <<>>]

\* takeDiff's baseline update keeping a baseline.png that exists
updateBaselineOnce(h, files, cur) ==
  [h EXCEPT !.files = IF baselinePng \in DOMAIN files THEN files
                      ELSE writeFile(files, baselinePng, files[cur]),
            !.marker = TRUE]

\* takeDiff writes the marker, which records baseline.png, and copies the
\* capture cur to baseline.png
updateBaseline(h, files, cur) ==
  [h EXCEPT !.files = writeFile(files, baselinePng, files[cur]),
            !.marker = TRUE]

\* `${timestampSafe}.diff.png`, a name in .canvas/diffs
diffName(n) == timestampSafe(n) \o <<".diff.png">>

\* takeDiff from the settling of its capture on: h is the host, base the
\* baseline path resolved before the capture, n the clock value the capture
\* file was named with, page the manager's page field.  The capture has
\* written the file; without a baseline the capture becomes the baseline;
\* with one, computeDiff runs, and writes the diff image, before the marker
\* and baseline.png are written.  The manifest line is built from
\* this.page.url(), which throws once the page field is null.
takeDiffTail(h, base, n, th, fill, page) ==
  LET cur == shotName(n)
      captured == writeFile(h.files, cur, h.view)
      d == computeDiff(captured[base], captured[cur], th, fill)
      compared == [h EXCEPT !.diffs = writeFile(@, diffName(n), d.diff)]
      updated == updateBaseline(IF base = NoPath THEN h ELSE compared,
                                captured, cur)
      logged(b, result) ==
        IF page = NoObj
        THEN [threw |-> TRUE, result |-> NoResult, host |-> updated]
        ELSE [threw |-> FALSE, result |-> result,
              host |-> [updated EXCEPT
                !.manifest = appendDiffManifest(
                               @, manifestRecord(b, cur, result)),
                !.fresh = TRUE]]
  IN IF base = NoPath THEN logged(baselinePng, firstDiffResult)
     ELSE IF d.threw
     THEN [threw |-> TRUE, result |-> NoResult,
           host |-> [h EXCEPT !.files = captured]]
     ELSE logged(base, d.result)

\* the host when the daemon starts in a project without a .canvas directory.
\* files is .canvas/screenshots, diffs the images in .canvas/diffs; fresh: a
\* diff has succeeded and the page was not repainted since; yaml: the
\* lines of the page's accessibility snapshot.
NewHost ==
  [now |-> 1, view |-> DefaultView, files |-> <<>>, marker |-> FALSE,
   manifest |-> <<>>, diffs |-> <<>>, fresh |-> FALSE,
   yaml |-> DefaultSnapshot]

\* ------------------------------------------------------------ the CLI client
\* the ids generateRequestId returns: a time stamp and six random digits
ClientIds == 1..MaxClientIds

\* A line the client reads: a JSON object with an id (kind "resp"), one
\* without (a watch event, kind "event"), or text JSON.parse throws on
\* (kind "badjson").  The id 'req_unknown' is no id of a request.
ClientLine(kind, id) == [kind |-> kind, id |-> id]
ClientLines ==
  {ClientLine("resp", i) : i \in ClientIds \cup {ReqUnknown}}
  \cup {ClientLine("event", ReqUnknown), ClientLine("badjson", ReqUnknown)}

\* A DaemonClient after construction.  socket: the socket field is set;
\* wire: the socket itself, "none", "open", "ended" (end() was called) or
\* "closed"; pending[i]: the promise pendingRequests holds for id i, 0 for
\* none; promises: one record per send() call, with the id of its request,
\* the lines received before the call and how it was settled; rx: the lines
\* received.
NewClient ==
  [socket |-> FALSE, wire |-> "none", pending |-> [i \in ClientIds |-> 0],
   promises |-> <<>>, rx |-> <<>>]

\* a promise settled: resolved with line n, or rejected
Resolved(n) == [kind |-> "resolve", line |-> n]
Rejected == [kind |-> "reject", line |-> 0]

settle(promises, p, how) ==
  [promises EXCEPT ![p].settled = Append(@, how)]

\* handleResponse that keeps the pending entry of a matched request
handleResponseKeeping(cl, l) ==
  LET received == [cl EXCEPT !.rx = Append(@, l)]
  IN IF l.kind = "resp" /\ l.id \in ClientIds /\ cl.pending[l.id] # 0
     THEN [received EXCEPT
             !.promises = settle(@, cl.pending[l.id], Resolved(Len(cl.rx) + 1))]
     ELSE received

\* DaemonClient.handleResponse: the client after reading line l
handleResponse(cl, l) ==
  LET received == [cl EXCEPT !.rx = Append(@, l)]
  IN IF l.kind = "resp" /\ l.id \in ClientIds /\ cl.pending[l.id] # 0
     THEN [received EXCEPT
             !.pending[l.id] = 0,
             !.promises = settle(@, cl.pending[l.id], Resolved(Len(cl.rx) + 1))]
     ELSE received

\* the socket's 'close' handler: every pending request is rejected
RECURSIVE rejectAll(_, _)
rejectAll(promises, ps) ==
  IF ps = {} THEN promises
  ELSE LET p == CHOOSE x \in ps : TRUE
       IN rejectAll(settle(promises, p, Rejected), ps \ {p})

onClose(cl) ==
  [cl EXCEPT
     !.wire = "closed",
     !.promises = rejectAll(@, {cl.pending[i] : i \in ClientIds} \ {0}),
     !.pending = [i \in ClientIds |-> 0]]

\* DaemonClient.send with the id generateRequestId returned
send(cl, id) ==
  IF ~cl.socket
  THEN [cl EXCEPT !.promises =
          Append(@, [id |-> id, at |-> Len(cl.rx), settled |-> <<Rejected>>])]
  ELSE [cl EXCEPT
          !.promises =
             Append(@, [id |-> id, at |-> Len(cl.rx), settled |-> <<>>]),
          !.pending[id] = Len(cl.promises) + 1]

\* --------------------------------------------------------------- initially
\* the daemon after construction and start()
Fresh ==
  /\ daemonUp = TRUE
  /\ sock = [c \in Conns |-> "new"]
  /\ connections = {}
  /\ tasks = <<>>
  /\ out = [c \in Conns |-> <<>>]
  /\ nextSubscriberId = 1
  /\ watchSubscribers = {}
  /\ watchLive = FALSE
  /\ watchIntervalMs = DefaultIntervalMs
  /\ watchIntervalTimer = Null
  /\ fsWatcher = FALSE
  /\ uiReadyTimer = Null
  /\ uiReadyMaxTimer = Null
  /\ uiReadyObserverInstalled = FALSE
  /\ observerPage = NoObj
  /\ bm = [browser |-> NoObj, context |-> NoObj, page |-> NoObj,
           engine |-> "chromium"]
  /\ pw = [browsers |-> {}, ctxs |-> {}, pages |-> {}, next |-> 1,
           doc |-> DefaultDoc]
  /\ liveCaps = 0
  /\ evSeq = 0
  /\ burstAge = 0
  /\ signals = 0
  /\ lastEmit = [n |-> 0, type |-> "", before |-> {}, failed |-> {}]
  /\ burstReady = 0
  /\ lastFire = [n |-> 0, age |-> 0]
  /\ lastSignal = [type |-> "", age |-> 0, flip |-> FALSE]
  /\ host = NewHost
  /\ daemonClient = NewClient

Init == Fresh /\ mode = "proto"

InitSession == Fresh /\ mode = "session"

InitStop == Fresh /\ mode = "stop"

\* the daemon once c1 has connected and its connect request, sent with
\* watchPaths, has been answered (a state SpecSession reaches)
ConnectedShowing(d) ==
  /\ daemonUp = TRUE
  /\ sock = [c \in Conns |-> IF c = "c1" THEN "open" ELSE "new"]
  /\ connections = {"c1"}
  /\ tasks = <<[Task(1, "c1", [Req("connect") EXCEPT !.wp = TRUE], "done",
                      "dispatch") EXCEPT !.tgt = 3, !.msg = "ok"]>>
  /\ out = [c \in Conns |-> IF c = "c1" THEN <<successResponse(1, 1, 1)>>
                             ELSE <<>>]
  /\ nextSubscriberId = 1
  /\ watchSubscribers = {}
  /\ watchLive = FALSE
  /\ watchIntervalMs = DefaultIntervalMs
  /\ watchIntervalTimer = Null
  /\ fsWatcher = TRUE
  /\ uiReadyTimer = Null
  /\ uiReadyMaxTimer = Null
  /\ uiReadyObserverInstalled = FALSE
  /\ observerPage = NoObj
  /\ bm = [browser |-> 1, context |-> 2, page |-> 3, engine |-> "chromium"]
  /\ pw = [browsers |-> {1}, ctxs |-> {[id |-> 2, br |-> 1]},
           pages |-> {[id |-> 3, ctx |-> 2]}, next |-> 4, doc |-> d]
  /\ liveCaps = 0
  /\ evSeq = 0
  /\ burstAge = 0
  /\ signals = 0
  /\ lastEmit = [n |-> 0, type |-> "", before |-> {}, failed |-> {}]
  /\ burstReady = 0
  /\ lastFire = [n |-> 0, age |-> 0]
  /\ lastSignal = [type |-> "", age |-> 0, flip |-> FALSE]
  /\ daemonClient = NewClient

SessionConnected == ConnectedShowing(DefaultDoc) /\ host = NewHost

InitWatch == SessionConnected /\ mode = "watch"

InitUi == SessionConnected /\ mode = "ui"

InitPage == SessionConnected /\ mode = "page"

InitHalt == SessionConnected /\ mode = "halt"

InitClient == Fresh /\ mode = "client"

\* SpecDom: the connected page shows any document
InitDom ==
  /\ mode = "dom"
  /\ ConnectedShowing(DefaultDoc)
  /\ \E y \in Snapshots : host = [NewHost EXCEPT !.yaml = y]

\* the documents of SpecCand: which common selectors match, and the class
\* names and ids of the page
CandEls == {(<<"body">>), (<<"main">>), (<<"header">>), (<<"footer">>),
            (<<"nav">>), (<<"button">>)}

NameLists == {<<>>, <<(<<"a", "b">>)>>, <<(<<"A">>), (<<"b">>)>>}

Docs == {[els |-> E, classes |-> cs, ids |-> is] :
           E \in SUBSET CandEls, cs \in NameLists, is \in NameLists}

InitExec == SessionConnected /\ mode = "exec"

InitDiff == SessionConnected /\ mode = "diff"

InitCand ==
  mode = "cand" /\ host = NewHost /\ \E d \in Docs : ConnectedShowing(d)

\* a connected session in a project that has a baseline: baseline.png and
\* what the page renders are drawn from PixelImages
InitPixel ==
  /\ mode = "pixel"
  /\ ConnectedShowing(DefaultDoc)
  /\ \E b, c \in PixelImages :
       host = [NewHost EXCEPT !.view = c, !.marker = TRUE,
                              !.files = writeFile(<<>>, baselinePng, b)]

\* ------------------------------------------------------------- connections
\* the server accepts connections until stop() has called server.close()
Listening ==
  \A t \in DOMAIN tasks :
    tasks[t].line.method = "daemon.stop" => tasks[t].pc \notin {"stop_exit", "done"}

\* createServer's callback: handleConnection
handleConnection(c) ==
  /\ daemonUp
  /\ Listening
  /\ sock[c] = "new"
  /\ sock' = [sock EXCEPT ![c] = "open"]
  /\ connections' = connections \cup {c}
  /\ UNCHANGED <<daemonUp, tasks, out, watchVars, fsWatcher, uiVars,
                 browserVars, liveCaps, evSeq, daemonClient, mode, lastSignal,
                 host, signals, lastEmit>>

\* the socket's 'close' (or 'error') handler
SocketClose(c) ==
  /\ daemonUp
  /\ sock[c] = "open"
  /\ sock' = [sock EXCEPT ![c] = "closed"]
  /\ connections' = connections \ {c}
  /\ UNCHANGED <<daemonUp, tasks, out, watchVars, fsWatcher, uiVars,
                 browserVars, liveCaps, evSeq, daemonClient, mode, lastSignal,
                 host, signals, lastEmit>>

\* ------------------------------------------------------------ handleMessage
\* The socket's 'data' handler starts handleMessage for a line while the
\* daemon runs and the socket is open.
TaskBound ==
  CASE mode = "proto" -> MaxTasks
    [] mode = "session" -> MaxSessionTasks
    [] mode = "stop" -> MaxStopTasks
    [] mode = "page" -> 1 + MaxPageTasks
    [] mode = "cand" -> 1 + MaxCandTasks
    [] mode = "exec" -> 1 + MaxExecTasks
    [] mode = "diff" -> 1 + MaxDiffTasks
    [] mode = "pixel" -> 1 + MaxPixelTasks
    [] mode = "dom" -> 1 + MaxDomTasks
    [] mode = "halt" -> 1 + MaxHaltTasks
    [] OTHER -> 1 + MaxWatchTasks

CanReceive(c) == daemonUp /\ sock[c] = "open" /\ Len(tasks) < TaskBound

\* handleMessage with the version check moved behind the watch intercepts
handleMessagePathWatchFirst(l) ==
  IF l.kind = "badjson" THEN "parse"
  ELSE IF l.kind = "nonenv" THEN "throw"
  ELSE IF l.method = "watch.subscribe" THEN "subscribe"
  ELSE IF l.method = "watch.unsubscribe" THEN "unsubscribe"
  ELSE IF ~isCompatible(l.ver, PROTOCOL_VERSION) THEN "version"
  ELSE "dispatch"

\* Which part of handleMessage takes a line, in the order of its checks
handleMessagePath(l) ==
  IF l.kind = "badjson" THEN "parse"
  ELSE IF l.kind = "nonenv" THEN "throw"
  ELSE IF ~isCompatible(l.ver, PROTOCOL_VERSION) THEN "version"
  ELSE IF l.method = "watch.subscribe" THEN "subscribe"
  ELSE IF l.method = "watch.unsubscribe" THEN "unsubscribe"
  ELSE "dispatch"

\* a parse failure answered under the line's own number, not the sentinel
parseFailureOwnId(n) == Failure(n, n, INPUT_INVALID)

\* the response to a line JSON.parse rejects
parseFailure(n) == Failure(ReqUnknown, n, INPUT_INVALID)

\* a handler run answering with the id of the oldest unanswered request
idOfOldestPending(ts, t) ==
  LET pending == {u \in 1..Len(ts) : ts[u].pc # "done"} IN
  ts[CHOOSE u \in pending : \A v \in pending : u <= v].id

\* the id a suspended handler run answers with: its own request's
idOf(ts, t) == ts[t].id

\* handleMessage ran to its end within the data event, writing resp
Answer(c, l, via, resp) ==
  /\ tasks' = Append(tasks, Task(Len(tasks) + 1, c, l, "done", via))
  /\ out' = [out EXCEPT ![c] = Append(@, resp)]

\* handleMessage suspended at an await
Suspend(c, l, pc, tgt) ==
  /\ tasks' = Append(tasks, [Task(Len(tasks) + 1, c, l, pc, "dispatch")
                               EXCEPT !.tgt = tgt])
  /\ UNCHANGED out

\* a suspended run writes its response and ends
Finish(t, resp) ==
  /\ tasks' = [tasks EXCEPT ![t].pc = "done"]
  /\ out' = [out EXCEPT ![tasks[t].conn] = Append(@, resp)]

\* ... after the browser call of its retry loop settled with msg
FinishAfter(t, msg, resp) ==
  /\ tasks' = [tasks EXCEPT ![t].pc = "done", ![t].msg = msg]
  /\ out' = [out EXCEPT ![tasks[t].conn] = Append(@, resp)]

\* JSON.parse throws: Failure with the sentinel id
RecvInvalidJson(c, l) ==
  /\ CanReceive(c)
  /\ handleMessagePath(l) = "parse"
  /\ Answer(c, l, "parse", parseFailure(Len(tasks) + 1))
  /\ UNCHANGED <<daemonUp, connVars, watchVars, fsWatcher, uiVars, browserVars,
                 liveCaps, evSeq, daemonClient, mode, lastSignal, host,
                 signals, lastEmit>>

\* JSON without meta: reading request.meta.protocolVersion throws a TypeError
\* out of handleMessage, whose promise nobody handles.  No response is
\* written; the runtime either ends the process on the unhandled rejection
\* or only warns.
RecvNotEnvelope(c, l) ==
  /\ CanReceive(c)
  /\ handleMessagePath(l) = "throw"
  /\ tasks' = Append(tasks, Task(Len(tasks) + 1, c, l, "done", "throw"))
  /\ daemonUp' \in BOOLEAN
  /\ UNCHANGED <<out, connVars, watchVars, fsWatcher, uiVars, browserVars,
                 liveCaps, evSeq, daemonClient, mode, lastSignal, host,
                 signals, lastEmit>>

\* the protocol-version check
RecvVersionMismatch(c, l) ==
  /\ CanReceive(c)
  /\ handleMessagePath(l) = "version"
  /\ Answer(c, l, "version",
            Failure(Len(tasks) + 1, Len(tasks) + 1, PROTOCOL_VERSION_MISMATCH))
  /\ UNCHANGED <<daemonUp, connVars, watchVars, fsWatcher, uiVars, browserVars,
                 liveCaps, evSeq, daemonClient, mode, lastSignal, host,
                 signals, lastEmit>>

\* watch.subscribe
RecvSubscribe(c, l) ==
  /\ CanReceive(c)
  /\ handleMessagePath(l) = "subscribe"
  /\ watchSubscribers' =
       registerWatchSubscriber(watchSubscribers, nextSubscriberId, c)
  /\ nextSubscriberId' = nextSubscriberId + 1
  /\ watchIntervalTimer' =
       startLiveInterval(watchLive, watchIntervalTimer, watchIntervalMs)
  /\ Answer(c, l, "subscribe",
            successResponse(Len(tasks) + 1, Len(tasks) + 1, nextSubscriberId))
  /\ UNCHANGED <<daemonUp, connVars, watchLive, watchIntervalMs, fsWatcher,
                 uiVars, browserVars, liveCaps, evSeq, daemonClient, mode,
                 lastSignal, host, signals, lastEmit>>

\* watch.unsubscribe
RecvUnsubscribe(c, l) ==
  /\ CanReceive(c)
  /\ handleMessagePath(l) = "unsubscribe"
  /\ IF l.subId = 0
     THEN /\ Answer(c, l, "unsubscribe",
                    FailureParam(Len(tasks) + 1, Len(tasks) + 1, INPUT_MISSING,
                                 "subscriberId"))
          /\ UNCHANGED <<watchSubscribers, watchIntervalTimer>>
     ELSE LET u == unregisterWatchSubscriber(watchSubscribers,
                                             watchIntervalTimer, l.subId) IN
          /\ watchSubscribers' = u.subs
          /\ watchIntervalTimer' = u.timer
          /\ Answer(c, l, "unsubscribe",
                    successResponse(Len(tasks) + 1, Len(tasks) + 1,
                                    IF u.removed THEN 1 ELSE 0))
  /\ UNCHANGED <<daemonUp, connVars, nextSubscriberId, watchLive,
                 watchIntervalMs, fsWatcher, uiVars, browserVars, liveCaps,
                 evSeq, daemonClient, mode, lastSignal, host, signals,
                 lastEmit>>

\* ----------------------------------------------------------------- dispatch
Dispatched(l, m) == handleMessagePath(l) = "dispatch" /\ l.method = m

\* ping, and the default branch for an unknown method
RecvPing(c, l) ==
  /\ CanReceive(c)
  /\ Dispatched(l, "ping")
  /\ Answer(c, l, "dispatch", successResponse(Len(tasks) + 1, Len(tasks) + 1, 1))
  /\ UNCHANGED <<daemonUp, connVars, watchVars, fsWatcher, uiVars, browserVars,
                 liveCaps, evSeq, daemonClient, mode, lastSignal, host,
                 signals, lastEmit>>

RecvUnknownMethod(c, l) ==
  /\ CanReceive(c)
  /\ Dispatched(l, "bogus")
  /\ Answer(c, l, "dispatch",
            FailureParam(Len(tasks) + 1, Len(tasks) + 1, INPUT_INVALID,
                         "method"))
  /\ UNCHANGED <<daemonUp, connVars, watchVars, fsWatcher, uiVars, browserVars,
                 liveCaps, evSeq, daemonClient, mode, lastSignal, host,
                 signals, lastEmit>>

\* DaemonServer.handleWatchConfigure
handleWatchConfigure(l) ==
  LET live == IF l.live = "on" THEN TRUE
              ELSE IF l.live = "off" THEN FALSE ELSE watchLive
      ms == IF l.intervalMs >= MinIntervalMs THEN l.intervalMs
            ELSE watchIntervalMs
  IN [live |-> live, ms |-> ms,
      timer |-> IF live THEN startLiveInterval(live, watchIntervalTimer, ms)
                ELSE stopLiveInterval(watchIntervalTimer)]

RecvWatchConfigure(c, l) ==
  /\ CanReceive(c)
  /\ Dispatched(l, "watch.configure")
  /\ watchLive' = handleWatchConfigure(l).live
  /\ watchIntervalMs' = handleWatchConfigure(l).ms
  /\ watchIntervalTimer' = handleWatchConfigure(l).timer
  /\ Answer(c, l, "dispatch",
            successResponse(Len(tasks) + 1, Len(tasks) + 1,
                            handleWatchConfigure(l).ms))
  /\ UNCHANGED <<daemonUp, connVars, nextSubscriberId, watchSubscribers,
                 fsWatcher, uiVars, browserVars, liveCaps, evSeq, daemonClient,
                 mode, lastSignal, host, signals, lastEmit>>

\* ------------------------------------------------------------ handleConnect
\* the failure messages of the automation layer, by what they contain
TimeoutMessages == {"timeout", "Timeout", "TIMEOUT"}

GotoMessages == {"ok", "net::ERR", "closed"} \cup TimeoutMessages

\* the outcomes of a browser call that Spec tells apart
ProtoMessages == {"ok", "closed", "timeout", "selector"}

\* Playwright's message when a locator does not resolve in time
LocatorTimeout == "locator: Timeout exceeded"

\* the keywords an error message contains
MessageWords(msg) ==
  IF msg = LocatorTimeout THEN {"locator", "Timeout"} ELSE {msg}

\* String.prototype.includes, on the keywords
includes(msg, w) == w \in MessageWords(msg)

\* a retry loop that retries after every failure
includesTimeoutAny(msg) == msg # "ok"

\* message.includes('timeout') || message.includes('Timeout')
includesTimeout(msg) == includes(msg, "timeout") \/ includes(msg, "Timeout")

ManagerPcs == {"cb_page", "cb_ctx", "cb_br", "launch", "close_page",
               "close_ctx", "new_ctx", "new_page", "d_page", "d_ctx"}

Running(t, m, pcs) ==
  /\ daemonUp
  /\ t \in 1..Len(tasks)
  /\ tasks[t].line.method = m
  /\ tasks[t].pc \in pcs

BrowserEngines == {"chromium", "firefox", "webkit"}

RecvConnect(c, l) ==
  /\ CanReceive(c)
  /\ Dispatched(l, "connect")
  /\ IF ~l.url
     THEN /\ Answer(c, l, "dispatch",
                    FailureParam(Len(tasks) + 1, Len(tasks) + 1, INPUT_MISSING,
                                 "url"))
          /\ UNCHANGED bm
     ELSE IF l.eng \notin {""} \cup BrowserEngines
     THEN /\ Answer(c, l, "dispatch",
                    FailureParam(Len(tasks) + 1, Len(tasks) + 1,
                                 INPUT_ENUM_INVALID, "browser"))
          /\ UNCHANGED bm
     ELSE /\ bm' = connect(bm, l.eng).bm
          /\ Suspend(c, l, connect(bm, l.eng).pc, connect(bm, l.eng).tgt)
  /\ UNCHANGED <<daemonUp, connVars, watchVars, fsWatcher, uiVars, pw,
                 liveCaps, evSeq, daemonClient, mode, lastSignal, host,
                 signals, lastEmit>>

\* BrowserManager.connect resumes at one of its awaits before page.goto
ConnectStep(t) ==
  /\ Running(t, "connect", ManagerPcs)
  /\ LET r == resumeManager(bm, pw, tasks[t].pc, tasks[t].tgt, "connect") IN
     /\ bm' = r.bm
     /\ pw' = r.pw
     /\ IF r.pc = "throw"
        THEN FinishAfter(t, "closed",
                         Failure(idOf(tasks, t), t, NAVIGATION_FAILED))
        ELSE /\ tasks' = [tasks EXCEPT ![t].pc = r.pc, ![t].tgt = r.tgt]
             /\ UNCHANGED out
  /\ UNCHANGED <<daemonUp, connVars, watchVars, fsWatcher, uiVars, liveCaps,
                 evSeq, daemonClient, mode, lastSignal, host, signals,
                 lastEmit>>

\* page.goto settles: with "ok", or rejected with a message.  With the page
\* field cleared meanwhile, this.page.url() throws a TypeError after "ok".
ConnectGoto(t, msg) ==
  /\ Running(t, "connect", {"goto"})
  /\ msg \in GotoMessages
  /\ (msg = "closed") <=> ~PageIsOpen(pw, tasks[t].tgt)
  /\ IF msg = "ok" /\ bm.page # NoObj
     THEN /\ fsWatcher' = tasks[t].line.wp
          /\ FinishAfter(t, msg, successResponse(idOf(tasks, t), t, 1))
     ELSE LET seen == IF msg = "ok" THEN "TypeError" ELSE msg IN
          /\ UNCHANGED fsWatcher
          /\ IF includesTimeout(seen) /\ tasks[t].attempt < tasks[t].line.retries
             THEN /\ tasks' = [tasks EXCEPT ![t].pc = "backoff",
                                            ![t].msg = seen]
                  /\ UNCHANGED out
             ELSE IF includesTimeout(seen)
             THEN FinishAfter(t, seen,
                              createTimeoutError(idOf(tasks, t), t,
                                                 NAVIGATION_TIMEOUT))
             ELSE FinishAfter(t, seen,
                              Failure(idOf(tasks, t), t, NAVIGATION_FAILED))
  /\ UNCHANGED <<daemonUp, connVars, watchVars, uiVars, browserVars, liveCaps,
                 evSeq, daemonClient, mode, lastSignal, host, signals,
                 lastEmit>>

\* the backoff timer of handleConnect's retry loop elapses
ConnectBackoff(t) ==
  /\ Running(t, "connect", {"backoff"})
  /\ LET a == connect(bm, tasks[t].line.eng) IN
     /\ bm' = a.bm
     /\ tasks' = [tasks EXCEPT ![t].pc = a.pc, ![t].tgt = a.tgt,
                               ![t].attempt = @ + 1]
  /\ UNCHANGED <<daemonUp, connVars, out, watchVars, fsWatcher, uiVars, pw,
                 liveCaps, evSeq, daemonClient, mode, lastSignal, host,
                 signals, lastEmit>>

\* --------------------------------------------------------- handleDisconnect
\* handleDisconnect after 'await this.browserManager.disconnect()'
DisconnectTail ==
  /\ fsWatcher' = FALSE
  /\ ClearTimers
  /\ uiReadyObserverInstalled' = FALSE
  /\ UNCHANGED <<observerPage, burstAge, burstReady, lastFire>>

RecvDisconnect(c, l) ==
  /\ CanReceive(c)
  /\ Dispatched(l, "disconnect")
  /\ LET a == disconnect(bm) IN
     /\ bm' = a.bm
     /\ IF a.pc = "return"
        THEN /\ DisconnectTail
             /\ Answer(c, l, "dispatch",
                       successResponse(Len(tasks) + 1, Len(tasks) + 1, 1))
        ELSE /\ Suspend(c, l, a.pc, a.tgt)
             /\ UNCHANGED <<fsWatcher, uiVars>>
  /\ UNCHANGED <<daemonUp, connVars, watchVars, pw, liveCaps, evSeq,
                 daemonClient, mode, lastSignal, host, signals, lastEmit>>

DisconnectStep(t) ==
  /\ Running(t, "disconnect", {"d_page", "d_ctx"})
  /\ LET r == resumeManager(bm, pw, tasks[t].pc, tasks[t].tgt, "disconnect") IN
     /\ bm' = r.bm
     /\ pw' = r.pw
     /\ IF r.pc = "return"
        THEN /\ DisconnectTail
             /\ Finish(t, successResponse(idOf(tasks, t), t, 1))
        ELSE /\ tasks' = [tasks EXCEPT ![t].pc = r.pc, ![t].tgt = r.tgt]
             /\ UNCHANGED <<out, fsWatcher, uiVars>>
  /\ UNCHANGED <<daemonUp, connVars, watchVars, liveCaps, evSeq, daemonClient,
                 mode, lastSignal, host, signals, lastEmit>>

\* --------------------------------------------------------- handleScreenshot
ShotMessages == {"ok", "selector", "locator", LocatorTimeout, "other", "closed"}
                \cup TimeoutMessages

\* the selector handed to getSelectorCandidates
failedSelector(l) ==
  IF l.sel # <<>> THEN l.sel
  ELSE IF l.method \in {"screenshot.viewport", "screenshot.element"}
  THEN <<"unknown">> ELSE <<"body">>

\* how the page queries of a candidate search settle
Queries == {[counts |-> C, scan |-> b] : C \in {{}, {(<<"button">>)}},
                                         b \in BOOLEAN}

\* the handler awaits getSelectorCandidates inside its catch block: the
\* response is written when it returns; when it throws the handler's promise
\* rejects with nobody handling it and no response is written
AfterCandidates(t, Q) ==
  LET r == getSelectorCandidates(pw.doc, isConnected(bm, pw),
                                 failedSelector(tasks[t].line), Q) IN
  IF r.throws
  THEN /\ tasks' = [tasks EXCEPT ![t].pc = "done", ![t].via = "throw",
                                 ![t].q = Q]
       /\ daemonUp' \in BOOLEAN
       /\ UNCHANGED out
  ELSE /\ tasks' = [tasks EXCEPT ![t].pc = "done", ![t].q = Q]
       /\ out' = [out EXCEPT ![tasks[t].conn] =
                    Append(@, createSelectorError(idOf(tasks, t), t, r.list))]
       /\ UNCHANGED daemonUp

RecvScreenshot(c, l) ==
  /\ CanReceive(c)
  /\ Dispatched(l, "screenshot.viewport")
  /\ IF ~isConnected(bm, pw)
     THEN Answer(c, l, "dispatch",
                 Failure(Len(tasks) + 1, Len(tasks) + 1, PAGE_NOT_READY))
     ELSE /\ tasks' = Append(tasks,
                    [Task(Len(tasks) + 1, c, l, "shot", "dispatch")
                       EXCEPT !.tgt = bm.page, !.stamp = host.now])
          /\ UNCHANGED out
  /\ UNCHANGED <<daemonUp, connVars, watchVars, fsWatcher, uiVars, browserVars,
                 liveCaps, evSeq, daemonClient, mode, lastSignal, host,
                 signals, lastEmit>>

\* takeScreenshot's capture settles; a capture that succeeds has written
\* its file
ScreenshotDone(t, msg) ==
  /\ Running(t, "screenshot.viewport", {"shot"})
  /\ msg \in ShotMessages
  /\ (msg = "closed") <=> ~PageIsOpen(pw, tasks[t].tgt)
  /\ host' = IF msg = "ok"
             THEN [host EXCEPT !.files =
                     writeFile(@, shotName(tasks[t].stamp), host.view)]
             ELSE host
  /\ IF msg = "ok"
     THEN IF bm.page # NoObj
          THEN FinishAfter(t, msg, successResponse(idOf(tasks, t), t, 1))
          ELSE FinishAfter(t, msg, Failure(idOf(tasks, t), t, INTERNAL_ERROR))
     ELSE IF includesTimeout(msg) /\ tasks[t].attempt < tasks[t].line.retries
     THEN /\ tasks' = [tasks EXCEPT ![t].pc = "shot_backoff", ![t].msg = msg]
          /\ UNCHANGED out
     ELSE IF includesTimeout(msg)
     THEN FinishAfter(t, msg,
                      createTimeoutError(idOf(tasks, t), t, TIMEOUT_SELECTOR))
     ELSE IF includes(msg, "selector") \/ includes(msg, "locator")
     THEN IF isConnected(bm, pw)
          THEN /\ tasks' = [tasks EXCEPT ![t].pc = "cand", ![t].msg = msg]
               /\ UNCHANGED out
          ELSE FinishAfter(t, msg, createSelectorError(idOf(tasks, t), t, <<>>))
     ELSE FinishAfter(t, msg, Failure(idOf(tasks, t), t, INTERNAL_ERROR))
  /\ UNCHANGED <<daemonUp, connVars, watchVars, fsWatcher, uiVars, browserVars,
                 liveCaps, evSeq, daemonClient, mode, lastSignal, signals,
                 lastEmit>>

\* the backoff timer of handleScreenshot's retry loop elapses
ScreenshotBackoff(t) ==
  /\ Running(t, "screenshot.viewport", {"shot_backoff"})
  /\ IF isConnected(bm, pw)
     THEN /\ tasks' = [tasks EXCEPT ![t].pc = "shot", ![t].tgt = bm.page,
                                    ![t].attempt = @ + 1,
                                    ![t].stamp = host.now]
          /\ UNCHANGED out
     ELSE FinishAfter(t, "No page connected",
                      Failure(idOf(tasks, t), t, INTERNAL_ERROR))
  /\ UNCHANGED <<daemonUp, connVars, watchVars, fsWatcher, uiVars, browserVars,
                 liveCaps, evSeq, daemonClient, mode, lastSignal, host,
                 signals, lastEmit>>

\* getSelectorCandidates settles
ScreenshotCandidates(t, Q) ==
  /\ Running(t, "screenshot.viewport", {"cand"})
  /\ Q \in Queries
  /\ AfterCandidates(t, Q)
  /\ UNCHANGED <<connVars, watchVars, fsWatcher, uiVars, browserVars, liveCaps,
                 evSeq, daemonClient, mode, lastSignal, host, signals,
                 lastEmit>>

\* ------------------------- handleStyles, handleDom, handleDescribe,
\* ------------------------- handleContext, handleA11y, screenshot.element
CapMethods == {"screenshot.element", "styles", "dom", "describe", "context",
               "a11y"}

A11yLevels == {"A", "AA", "AAA"}

CallMessages == ShotMessages \cup {"@axe-core/playwright"}

\* a handler that checks no parameter
paramCheckNone(l) == [code |-> 0, param |-> ""]

\* the parameter check of the handler: the code and the parameter of its
\* Failure, code 0 when the parameters pass
paramCheck(l) ==
  IF l.method \in {"styles", "describe"} /\ l.sel = <<>>
  THEN [code |-> INPUT_MISSING, param |-> "selector"]
  ELSE IF l.method = "a11y" /\ l.level \notin {""} \cup A11yLevels
  THEN [code |-> INPUT_ENUM_INVALID, param |-> "level"]
  ELSE [code |-> 0, param |-> ""]

\* the code of the handler's timeout Failure
timeoutCode(m) ==
  IF m \in {"context", "a11y"} THEN TIMEOUT_BROWSER ELSE TIMEOUT_SELECTOR

\* the handler up to its first browser call: session, then parameters
RecvCapability(c, l) ==
  /\ CanReceive(c)
  /\ l.method \in CapMethods
  /\ Dispatched(l, l.method)
  /\ IF ~isConnected(bm, pw)
     THEN Answer(c, l, "dispatch",
                 Failure(Len(tasks) + 1, Len(tasks) + 1, PAGE_NOT_READY))
     ELSE IF paramCheck(l).code # 0
     THEN Answer(c, l, "dispatch",
                 FailureParam(Len(tasks) + 1, Len(tasks) + 1,
                              paramCheck(l).code, paramCheck(l).param))
     ELSE Suspend(c, l, "call", bm.page)
  /\ UNCHANGED <<daemonUp, connVars, watchVars, fsWatcher, uiVars, browserVars,
                 liveCaps, evSeq, daemonClient, mode, lastSignal, host,
                 signals, lastEmit>>

CapabilityRunning(t, pc) ==
  /\ daemonUp
  /\ tasks[t].line.method \in CapMethods
  /\ tasks[t].pc = pc

\* getDom, alone or within getContext, parses the snapshot it awaited
usesSnapshot(l) == l.method \in {"dom", "context"}

\* parseAriaYaml never returns: the run keeps the event loop for ever
domHangs(l) == usesSnapshot(l) /\ parseAriaYaml(host.yaml, depthOf(l)).hang

\* the handler's success response; root is DomResult.root
capabilityResult(id, task, l) ==
  IF usesSnapshot(l)
  THEN [successResponse(id, task, 1) EXCEPT
          !.root = parseAriaYaml(host.yaml, depthOf(l)).root]
  ELSE successResponse(id, task, 1)

\* the browser call of the retry loop settles; the catch classifies msg.
\* A run that never returns leaves the daemon serving nothing more.
CapabilityDone(t, msg) ==
  /\ CapabilityRunning(t, "call")
  /\ msg \in CallMessages
  /\ (msg = "closed") <=> ~PageIsOpen(pw, tasks[t].tgt)
  /\ (msg = "@axe-core/playwright") => tasks[t].line.method = "a11y"
  /\ daemonUp' = ~(msg = "ok" /\ domHangs(tasks[t].line))
  /\ IF msg = "ok"
     THEN IF domHangs(tasks[t].line)
          THEN /\ tasks' = [tasks EXCEPT ![t].pc = "spin", ![t].msg = msg]
               /\ UNCHANGED out
          ELSE FinishAfter(t, msg, capabilityResult(idOf(tasks, t), t,
                                                    tasks[t].line))
     ELSE IF includesTimeout(msg) /\ tasks[t].attempt < tasks[t].line.retries
     THEN /\ tasks' = [tasks EXCEPT ![t].pc = "call_backoff", ![t].msg = msg]
          /\ UNCHANGED out
     ELSE IF tasks[t].line.method = "a11y"
             /\ includes(msg, "@axe-core/playwright")
     THEN FinishAfter(t, msg, Failure(idOf(tasks, t), t, BROWSER_NOT_READY))
     ELSE IF includesTimeout(msg)
     THEN FinishAfter(t, msg,
                      createTimeoutError(idOf(tasks, t), t,
                                         timeoutCode(tasks[t].line.method)))
     ELSE IF includes(msg, "selector") \/ includes(msg, "locator")
     THEN IF isConnected(bm, pw)
          THEN /\ tasks' = [tasks EXCEPT ![t].pc = "cand", ![t].msg = msg]
               /\ UNCHANGED out
          ELSE FinishAfter(t, msg, createSelectorError(idOf(tasks, t), t, <<>>))
     ELSE FinishAfter(t, msg, Failure(idOf(tasks, t), t, INTERNAL_ERROR))
  /\ UNCHANGED <<connVars, watchVars, fsWatcher, uiVars, browserVars, liveCaps,
                 evSeq, daemonClient, mode, lastSignal, host, signals,
                 lastEmit>>

\* the backoff timer elapses: the next attempt begins, or the browser
\* manager throws 'No page connected', which the catch reports as internal
CapabilityBackoff(t) ==
  /\ CapabilityRunning(t, "call_backoff")
  /\ IF isConnected(bm, pw)
     THEN /\ tasks' = [tasks EXCEPT ![t].pc = "call", ![t].tgt = bm.page,
                                    ![t].attempt = @ + 1]
          /\ UNCHANGED out
     ELSE FinishAfter(t, "No page connected",
                      Failure(idOf(tasks, t), t, INTERNAL_ERROR))
  /\ UNCHANGED <<daemonUp, connVars, watchVars, fsWatcher, uiVars, browserVars,
                 liveCaps, evSeq, daemonClient, mode, lastSignal, host,
                 signals, lastEmit>>

\* getSelectorCandidates settles
CapabilityCandidates(t, Q) ==
  /\ CapabilityRunning(t, "cand")
  /\ Q \in Queries
  /\ AfterCandidates(t, Q)
  /\ UNCHANGED <<connVars, watchVars, fsWatcher, uiVars, browserVars, liveCaps,
                 evSeq, daemonClient, mode, lastSignal, host, signals,
                 lastEmit>>

\* ------------------------------------------------------------ handleExecute
executeTimeoutMs(l) ==
  IF l.timeoutMs = 0 THEN DefaultExecuteTimeoutMs ELSE l.timeoutMs

\* in SpecExec time passes explicitly for handleExecute's timers
ExecTimed == mode = "exec"

InRace(ts, t) == ts[t].line.method = "execute" /\ ts[t].pc = "race"

\* d ms pass for the runs waiting in handleExecute's race; a timer whose
\* time is up stays due until the event loop runs its callback
elapse(ts, d) ==
  [t \in DOMAIN ts |->
     IF InRace(ts, t)
     THEN [ts[t] EXCEPT !.age = @ + d,
                        !.timer = IF @ = Null THEN Null
                                  ELSE IF @ < d THEN 0 ELSE @ - d]
     ELSE ts[t]]

\* the script keeps the event loop until it returns: userFn(page) runs up to
\* its first await inside handleExecute's own run
executeBlocks(l) == l.script = "sync"

\* handleExecute up to 'await Promise.race([userFn(page), timeoutPromise])'.
\* A script that never yields returns to the race only when it has finished:
\* its promise is settled, the race takes its value and the timer is cleared
\* without having run.
RecvExecute(c, l) ==
  /\ CanReceive(c)
  /\ Dispatched(l, "execute")
  /\ IF ~isConnected(bm, pw)
     THEN Answer(c, l, "dispatch",
                 Failure(Len(tasks) + 1, Len(tasks) + 1, PAGE_NOT_READY))
     ELSE IF ~l.code
     THEN Answer(c, l, "dispatch",
                 FailureParam(Len(tasks) + 1, Len(tasks) + 1, INPUT_MISSING,
                              "code"))
     ELSE IF executeBlocks(l)
     THEN /\ tasks' = Append(elapse(tasks, SyncBlockMs),
                             [Task(Len(tasks) + 1, c, l, "done", "dispatch")
                                EXCEPT !.age = SyncBlockMs, !.msg = "value"])
          /\ out' = [out EXCEPT ![c] =
                       Append(@, successResponse(Len(tasks) + 1,
                                                 Len(tasks) + 1, 1))]
     ELSE /\ tasks' = Append(tasks,
                             [Task(Len(tasks) + 1, c, l, "race", "dispatch")
                                EXCEPT !.timer = executeTimeoutMs(l)])
          /\ UNCHANGED out
  /\ UNCHANGED <<daemonUp, connVars, watchVars, fsWatcher, uiVars, browserVars,
                 liveCaps, evSeq, daemonClient, mode, lastSignal, host,
                 signals, lastEmit>>

ExecuteOutcomes == {"value", "error"}

\* the script's promise settles first: its value, or EXECUTE_FAILED; the
\* finally block clears the timer
ExecuteSettle(t, outcome) ==
  /\ daemonUp
  /\ InRace(tasks, t)
  /\ outcome \in ExecuteOutcomes
  /\ tasks' = [tasks EXCEPT ![t].pc = "done", ![t].msg = outcome,
                            ![t].timer = Null]
  /\ out' = [out EXCEPT ![tasks[t].conn] =
               Append(@, IF outcome = "value"
                         THEN successResponse(idOf(tasks, t), t, 1)
                         ELSE Failure(idOf(tasks, t), t, EXECUTE_FAILED))]
  /\ UNCHANGED <<daemonUp, connVars, watchVars, fsWatcher, uiVars, browserVars,
                 liveCaps, evSeq, daemonClient, mode, lastSignal, host,
                 signals, lastEmit>>

\* the timeout timer's callback rejects the race: EXECUTE_TIMEOUT is
\* answered while the script's promise is still pending
ExecuteTimeout(t) ==
  /\ daemonUp
  /\ InRace(tasks, t)
  /\ tasks[t].timer # Null
  /\ ExecTimed => tasks[t].timer = 0
  /\ tasks' = [tasks EXCEPT ![t].pc = "done", ![t].msg = "pending",
                            ![t].timer = Null]
  /\ out' = [out EXCEPT ![tasks[t].conn] =
               Append(@, createTimeoutError(idOf(tasks, t), t,
                                            EXECUTE_TIMEOUT))]
  /\ UNCHANGED <<daemonUp, connVars, watchVars, fsWatcher, uiVars, browserVars,
                 liveCaps, evSeq, daemonClient, mode, lastSignal, host,
                 signals, lastEmit>>

\* d ms pass with the event loop idle: no timer of a race is overrun
ExecTick(d) ==
  /\ daemonUp
  /\ ExecTimed
  /\ d > 0
  /\ \E t \in 1..Len(tasks) : InRace(tasks, t)
  /\ \A t \in 1..Len(tasks) : InRace(tasks, t) => d <= tasks[t].timer
  /\ tasks' = elapse(tasks, d)
  /\ UNCHANGED <<daemonUp, connVars, out, watchVars, fsWatcher, uiVars,
                 browserVars, liveCaps, evSeq, daemonClient, mode, lastSignal,
                 host, signals, lastEmit>>

\* --------------------------------------------------------------- handleDiff
\* handleDiff's catch: whatever takeDiff threw
diffFailure(id, task) == Failure(id, task, INTERNAL_ERROR)

RecvDiff(c, l) ==
  /\ CanReceive(c)
  /\ Dispatched(l, "diff")
  /\ IF ~isConnected(bm, pw)
     THEN Answer(c, l, "dispatch",
                 Failure(Len(tasks) + 1, Len(tasks) + 1, PAGE_NOT_READY))
     ELSE LET r == resolveBaselinePath(host.files, host.marker, l.since) IN
          IF r.threw
          THEN Answer(c, l, "dispatch",
                      diffFailure(Len(tasks) + 1, Len(tasks) + 1))
          ELSE /\ tasks' = Append(tasks,
                         [Task(Len(tasks) + 1, c, l, "diff", "dispatch")
                            EXCEPT !.tgt = bm.page, !.base = r.path,
                                   !.stamp = host.now, !.after = host.fresh])
               /\ UNCHANGED out
  /\ UNCHANGED <<daemonUp, connVars, watchVars, fsWatcher, uiVars, browserVars,
                 liveCaps, evSeq, daemonClient, mode, lastSignal, host,
                 signals, lastEmit>>

\* takeDiff's capture settles and takeDiff runs to its end: its result, or
\* any error as INTERNAL_ERROR
DiffDone(t, msg, fill) ==
  /\ Running(t, "diff", {"diff"})
  /\ msg \in ShotMessages
  /\ (msg = "closed") <=> ~PageIsOpen(pw, tasks[t].tgt)
  /\ LET r == takeDiffTail(host, tasks[t].base, tasks[t].stamp,
                           thresholdOf(tasks[t].line), fill, bm.page)
     IN IF msg # "ok"
        THEN /\ FinishAfter(t, msg, diffFailure(idOf(tasks, t), t))
             /\ UNCHANGED host
        ELSE /\ host' = r.host
             /\ IF r.threw
                THEN FinishAfter(t, msg, diffFailure(idOf(tasks, t), t))
                ELSE FinishAfter(t, msg,
                       [successResponse(idOf(tasks, t), t, 1)
                          EXCEPT !.res = r.result])
  /\ UNCHANGED <<daemonUp, connVars, watchVars, fsWatcher, uiVars, browserVars,
                 liveCaps, evSeq, daemonClient, mode, lastSignal, signals,
                 lastEmit>>

\* the host's clock advances
ClockTick ==
  /\ host.now < MaxTime
  /\ host' = [host EXCEPT !.now = @ + 1]
  /\ UNCHANGED <<daemonUp, connVars, tasks, out, watchVars, fsWatcher, uiVars,
                 browserVars, liveCaps, evSeq, daemonClient, mode, lastSignal,
                 signals, lastEmit>>

\* the page renders something else
Repaint(v) ==
  /\ v \in Views \ {host.view}
  /\ host' = [host EXCEPT !.view = v, !.fresh = FALSE]
  /\ UNCHANGED <<daemonUp, connVars, tasks, out, watchVars, fsWatcher, uiVars,
                 browserVars, liveCaps, evSeq, daemonClient, mode, lastSignal,
                 signals, lastEmit>>

\* -------------------------------------------------------------- daemon.stop
\* stop() called inside dispatch: it has run up to its first await when
\* dispatch returns
dispatchStopInline == "stop_fsw"

\* Where stop() stands when dispatch returns for daemon.stop: it is scheduled
\* with setImmediate and has not begun
dispatchStop == "stop_imm"

\* dispatch: stop() is scheduled with setImmediate, the response is written
RecvDaemonStop(c, l) ==
  /\ CanReceive(c)
  /\ Dispatched(l, "daemon.stop")
  /\ tasks' = Append(tasks, Task(Len(tasks) + 1, c, l, dispatchStop, "dispatch"))
  /\ out' = [out EXCEPT ![c] =
               Append(@, successResponse(Len(tasks) + 1, Len(tasks) + 1, 1))]
  /\ UNCHANGED <<daemonUp, connVars, watchVars, fsWatcher, uiVars, browserVars,
                 liveCaps, evSeq, daemonClient, mode, lastSignal, host,
                 signals, lastEmit>>

\* stop() goes on from closeBrowser standing at a: either it is suspended
\* again, or closeBrowser returned and stop() runs its final part, up to
\* server.close
StopContinue(t, a) ==
  /\ bm' = a.bm
  /\ IF a.pc = "return"
     THEN /\ sock' = [c \in Conns |->
                        IF c \in connections THEN "closed" ELSE sock[c]]
          /\ connections' = {}
          /\ watchSubscribers' = {}
          /\ watchIntervalTimer' = stopLiveInterval(watchIntervalTimer)
          /\ tasks' = [tasks EXCEPT ![t].pc = "stop_exit"]
     ELSE /\ tasks' = [tasks EXCEPT ![t].pc = a.pc, ![t].tgt = a.tgt]
          /\ UNCHANGED <<connVars, watchSubscribers, watchIntervalTimer>>

\* the setImmediate callback: stop() up to its first await
StopStart(t) ==
  /\ Running(t, "daemon.stop", {"stop_imm"})
  /\ ClearTimers
  /\ IF fsWatcher
     THEN /\ tasks' = [tasks EXCEPT ![t].pc = "stop_fsw"]
          /\ UNCHANGED <<bm, connVars, watchSubscribers, watchIntervalTimer>>
     ELSE StopContinue(t, closeBrowser(bm, "stop"))
  /\ UNCHANGED <<daemonUp, out, nextSubscriberId, watchLive, watchIntervalMs,
                 fsWatcher, uiReadyObserverInstalled, observerPage, burstAge,
                 burstReady, lastFire, pw, liveCaps, evSeq, daemonClient, mode,
                 lastSignal, host, signals, lastEmit>>

\* stop() resumes after fsWatcher.close() or inside closeBrowser
StopStep(t) ==
  /\ Running(t, "daemon.stop", {"stop_fsw", "cb_page", "cb_ctx", "cb_br"})
  /\ IF tasks[t].pc = "stop_fsw"
     THEN /\ fsWatcher' = FALSE
          /\ UNCHANGED pw
          /\ StopContinue(t, closeBrowser(bm, "stop"))
     ELSE LET r == resumeManager(bm, pw, tasks[t].pc, tasks[t].tgt, "stop") IN
          /\ UNCHANGED fsWatcher
          /\ pw' = r.pw
          /\ StopContinue(t, r)
  /\ UNCHANGED <<daemonUp, out, nextSubscriberId, watchLive, watchIntervalMs,
                 uiVars, liveCaps, evSeq, daemonClient, mode, lastSignal, host,
                 signals, lastEmit>>

\* server.close calls back; process.exit(0)
StopExit(t) ==
  /\ Running(t, "daemon.stop", {"stop_exit"})
  /\ daemonUp' = FALSE
  /\ tasks' = [tasks EXCEPT ![t].pc = "done"]
  /\ UNCHANGED <<connVars, out, watchVars, fsWatcher, uiVars, browserVars,
                 liveCaps, evSeq, daemonClient, mode, lastSignal, host,
                 signals, lastEmit>>

\* ------------------------------------------------------------------ events
\* time passes in steps of half a quiet window, and up to each deadline
TimeUnit == uiReadyQuietWindowMs \div 2

\* in SpecUi time passes explicitly and a timer fires when its time is up;
\* elsewhere a pending timer may fire at any moment
Timed == mode = "ui"

Due(timer) == timer # Null /\ (Timed => timer = 0)

UiEventTypes == {"hmr_start", "hmr_complete", "ui_changed"}

\* a page calls __canvas_emit_ui_event (installUiEventBridge): onUiEvent
UiEvent(type, F) ==
  /\ daemonUp
  /\ signals < MaxEvents
  /\ pw.pages # {}
  /\ type \in UiEventTypes
  /\ F \in FailSets
  /\ emitWatchEvent(type, F, liveCaps)
  /\ signals' = signals + 1
  /\ lastSignal' = IF Timed
                   THEN [type |-> type, age |-> 0, flip |-> ~lastSignal.flip]
                   ELSE lastSignal
  /\ UNCHANGED <<daemonUp, connVars, tasks, nextSubscriberId, watchLive,
                 watchIntervalMs, watchIntervalTimer, fsWatcher, browserVars,
                 daemonClient, mode, host>>

\* the file watcher's 'all' callback (setWatchPaths)
FileChanged(F) ==
  /\ daemonUp
  /\ signals < MaxEvents
  /\ fsWatcher
  /\ F \in FailSets
  /\ emitWatchEvent("file_changed", F, liveCaps)
  /\ signals' = signals + 1
  /\ UNCHANGED <<daemonUp, connVars, tasks, nextSubscriberId, watchLive,
                 watchIntervalMs, watchIntervalTimer, fsWatcher, browserVars,
                 daemonClient, mode, lastSignal, host>>

\* the page's mutation observer calls __canvas_notify_dom_mutation
DomMutation ==
  /\ daemonUp
  /\ IF Timed THEN ~Idle \/ lastFire.n < MaxBursts ELSE signals < MaxEvents
  /\ observerPage # NoObj
  /\ PageIsOpen(pw, observerPage)
  /\ ResetTimers
  /\ signals' = IF Timed THEN signals ELSE signals + 1
  /\ lastSignal' = IF Timed
                   THEN [type |-> "mutation", age |-> 0,
                         flip |-> ~lastSignal.flip]
                   ELSE lastSignal
  /\ UNCHANGED <<daemonUp, connVars, tasks, out, watchVars, fsWatcher,
                 uiReadyObserverInstalled, observerPage, browserVars, liveCaps,
                 evSeq, daemonClient, mode, host, lastEmit>>

\* a UI-readiness timer's callback: emit ui_ready, clear both timers
FireTimer(F) ==
  /\ emitWatchEvent("ui_ready", F, liveCaps)
  /\ ClearTimers
  /\ burstReady' = burstReady + 1
  /\ lastFire' = [n |-> lastFire.n + 1, age |-> burstAge]
  /\ UNCHANGED <<daemonUp, connVars, tasks, nextSubscriberId, watchLive,
                 watchIntervalMs, watchIntervalTimer, fsWatcher,
                 uiReadyObserverInstalled, observerPage, burstAge, browserVars,
                 daemonClient, mode, lastSignal, host, signals>>

\* the quiet-window timer elapses
FireQuiet(F) ==
  /\ daemonUp
  /\ Due(uiReadyTimer)
  /\ F \in FailSets
  /\ FireTimer(F)

\* the max-wait timer elapses
FireMax(F) ==
  /\ daemonUp
  /\ Due(uiReadyMaxTimer)
  /\ F \in FailSets
  /\ FireTimer(F)

\* the live-screenshot interval timer ticks
LiveIntervalTick ==
  /\ daemonUp
  /\ signals < MaxEvents
  /\ watchIntervalTimer # Null
  /\ liveCaps' = captureLiveScreenshot(liveCaps)
  /\ signals' = signals + 1
  /\ UNCHANGED <<daemonUp, connVars, tasks, out, watchVars, fsWatcher, uiVars,
                 browserVars, evSeq, daemonClient, mode, lastSignal, host,
                 lastEmit>>

\* captureLiveScreenshot resumes: the screenshot was taken, or it failed
LiveCaptureDone(ok, F) ==
  /\ daemonUp
  /\ liveCaps > 0
  /\ F \in FailSets
  /\ IF ok
     THEN emitWatchEvent("screenshot", F, liveCaps - 1)
     ELSE /\ F = {}
          /\ liveCaps' = liveCaps - 1
          /\ UNCHANGED <<out, watchSubscribers, evSeq, lastEmit, uiVars>>
  /\ UNCHANGED <<daemonUp, connVars, tasks, nextSubscriberId, watchLive,
                 watchIntervalMs, watchIntervalTimer, fsWatcher, browserVars,
                 daemonClient, mode, lastSignal, host, signals>>

\* d ms pass: no pending timer is overrun
Tick(d) ==
  /\ daemonUp
  /\ Timed
  /\ ~Idle
  /\ d > 0
  /\ uiReadyTimer # Null => d <= uiReadyTimer
  /\ uiReadyMaxTimer # Null => d <= uiReadyMaxTimer
  /\ uiReadyTimer' = IF uiReadyTimer = Null THEN Null ELSE uiReadyTimer - d
  /\ uiReadyMaxTimer' = IF uiReadyMaxTimer = Null THEN Null
                        ELSE uiReadyMaxTimer - d
  /\ burstAge' = burstAge + d
  /\ lastSignal' = [lastSignal EXCEPT !.age = @ + d]
  /\ UNCHANGED <<daemonUp, connVars, tasks, out, watchVars, fsWatcher,
                 uiReadyObserverInstalled, observerPage, burstReady, lastFire,
                 browserVars, liveCaps, evSeq, daemonClient, mode, host,
                 signals, lastEmit>>

\* --------------------------------------------------------- the client's events
\* the daemon, as far as the client's events are concerned
DaemonIdle ==
  UNCHANGED <<daemonUp, sock, connections, tasks, out, nextSubscriberId,
              watchSubscribers, watchLive, watchIntervalMs, watchIntervalTimer,
              fsWatcher, uiReadyTimer, uiReadyMaxTimer,
              uiReadyObserverInstalled, observerPage, bm, pw, liveCaps, evSeq,
              mode, burstAge, signals, lastEmit, burstReady, lastFire, host,
              lastSignal>>

\* DaemonClient.connect: the socket connects, or fails and closes
ClientConnect(ok) ==
  /\ mode = "client"
  /\ daemonClient.wire = "none"
  /\ daemonClient' = [daemonClient EXCEPT
                        !.socket = TRUE,
                        !.wire = IF ok THEN "open" ELSE "closed"]
  /\ DaemonIdle

\* DaemonClient.send
ClientSend(id) ==
  /\ mode = "client"
  /\ Len(daemonClient.promises) < MaxClientSends
  /\ id \in ClientIds
  /\ daemonClient' = send(daemonClient, id)
  /\ DaemonIdle

\* the socket's 'data' handler reads a line
ClientData(l) ==
  /\ mode = "client"
  /\ daemonClient.wire \in {"open", "ended"}
  /\ Len(daemonClient.rx) < MaxClientLines
  /\ l \in ClientLines
  /\ daemonClient' = handleResponse(daemonClient, l)
  /\ DaemonIdle

\* the socket's 'close' handler
ClientClose ==
  /\ mode = "client"
  /\ daemonClient.wire \in {"open", "ended"}
  /\ daemonClient' = onClose(daemonClient)
  /\ DaemonIdle

\* DaemonClient.disconnect
ClientDisconnect ==
  /\ mode = "client"
  /\ daemonClient.socket
  /\ daemonClient' = [daemonClient EXCEPT
                        !.socket = FALSE,
                        !.wire = IF @ = "open" THEN "ended" ELSE @]
  /\ DaemonIdle

\* ---------------------------------------------------------- specifications
\* Spec: the protocol layer, every kind of line on two connections
Next ==
  \/ \E c \in Conns : handleConnection(c)
  \/ \E c \in Conns : SocketClose(c)
  \/ \E c \in Conns, l \in Lines : RecvInvalidJson(c, l)
  \/ \E c \in Conns, l \in Lines : RecvNotEnvelope(c, l)
  \/ \E c \in Conns, l \in Lines : RecvVersionMismatch(c, l)
  \/ \E c \in Conns, l \in Lines : RecvSubscribe(c, l)
  \/ \E c \in Conns, l \in Lines : RecvUnsubscribe(c, l)
  \/ \E c \in Conns, l \in Lines : RecvPing(c, l)
  \/ \E c \in Conns, l \in Lines : RecvUnknownMethod(c, l)
  \/ \E c \in Conns, l \in Lines : RecvWatchConfigure(c, l)
  \/ \E c \in Conns, l \in Lines : RecvConnect(c, l)
  \/ \E c \in Conns, l \in Lines : RecvDisconnect(c, l)
  \/ \E c \in Conns, l \in Lines : RecvScreenshot(c, l)
  \/ \E c \in Conns, l \in Lines : RecvDaemonStop(c, l)
  \/ \E t \in 1..Len(tasks) : ConnectStep(t)
  \/ \E t \in 1..Len(tasks), msg \in ProtoMessages : ConnectGoto(t, msg)
  \/ \E t \in 1..Len(tasks) : ConnectBackoff(t)
  \/ \E t \in 1..Len(tasks) : DisconnectStep(t)
  \/ \E t \in 1..Len(tasks), msg \in ProtoMessages : ScreenshotDone(t, msg)
  \/ \E t \in 1..Len(tasks) : ScreenshotBackoff(t)
  \/ \E t \in 1..Len(tasks), Q \in Queries : ScreenshotCandidates(t, Q)
  \/ \E t \in 1..Len(tasks) : StopStart(t)
  \/ \E t \in 1..Len(tasks) : StopStep(t)
  \/ \E t \in 1..Len(tasks) : StopExit(t)

Spec == Init /\ [][Next]_vars

\* SpecSession: the session requests of one connection, overlapping
NextSession ==
  \/ handleConnection("c1")
  \/ \E l \in SessionLines : RecvConnect("c1", l)
  \/ \E l \in SessionLines : RecvDisconnect("c1", l)
  \/ \E l \in SessionLines : RecvScreenshot("c1", l)
  \/ \E t \in 1..Len(tasks) : ConnectStep(t)
  \/ \E t \in 1..Len(tasks), msg \in GotoMessages : ConnectGoto(t, msg)
  \/ \E t \in 1..Len(tasks) : ConnectBackoff(t)
  \/ \E t \in 1..Len(tasks) : DisconnectStep(t)
  \/ \E t \in 1..Len(tasks), msg \in ShotMessages : ScreenshotDone(t, msg)
  \/ \E t \in 1..Len(tasks) : ScreenshotBackoff(t)
  \/ \E t \in 1..Len(tasks), Q \in Queries : ScreenshotCandidates(t, Q)

SpecSession == InitSession /\ [][NextSession]_vars

\* SpecWatch: the watch requests and the events, from a connected session
NextWatch ==
  \/ \E c \in Conns : handleConnection(c)
  \/ \E c \in Conns : SocketClose(c)
  \/ \E c \in Conns, l \in WatchLines : RecvSubscribe(c, l)
  \/ \E c \in Conns, l \in WatchLines : RecvUnsubscribe(c, l)
  \/ \E c \in Conns, l \in WatchLines : RecvWatchConfigure(c, l)
  \/ \E c \in Conns, l \in WatchLines : RecvDisconnect(c, l)
  \/ \E t \in 1..Len(tasks) : DisconnectStep(t)
  \/ \E type \in UiEventTypes, F \in FailSets : UiEvent(type, F)
  \/ \E F \in FailSets : FileChanged(F)
  \/ DomMutation
  \/ \E F \in FailSets : FireQuiet(F)
  \/ \E F \in FailSets : FireMax(F)
  \/ LiveIntervalTick
  \/ \E ok \in BOOLEAN, F \in FailSets : LiveCaptureDone(ok, F)

SpecWatch == InitWatch /\ [][NextWatch]_vars

\* SpecUi: the UI-readiness timers of a connected session, in real time
NextUi ==
  \/ \E type \in UiEventTypes : UiEvent(type, {})
  \/ DomMutation
  \/ FireQuiet({})
  \/ FireMax({})
  \/ \E d \in {TimeUnit, uiReadyTimer, uiReadyMaxTimer} : Tick(d)

SpecUi == InitUi /\ [][NextUi]_vars

\* SpecStop: daemon.stop among other requests, on two connections
NextStop ==
  \/ \E c \in Conns : handleConnection(c)
  \/ \E c \in Conns : SocketClose(c)
  \/ \E c \in Conns, l \in StopLines : RecvPing(c, l)
  \/ \E c \in Conns, l \in StopLines : RecvSubscribe(c, l)
  \/ \E c \in Conns, l \in StopLines : RecvConnect(c, l)
  \/ \E c \in Conns, l \in StopLines : RecvDaemonStop(c, l)
  \/ \E t \in 1..Len(tasks) : ConnectStep(t)
  \/ \E t \in 1..Len(tasks), msg \in GotoMessages : ConnectGoto(t, msg)
  \/ \E t \in 1..Len(tasks) : StopStart(t)
  \/ \E t \in 1..Len(tasks) : StopStep(t)
  \/ \E t \in 1..Len(tasks) : StopExit(t)

SpecStop == InitStop /\ [][NextStop]_vars

\* SpecPage: requests that use the page, from a connected session
NextPage ==
  \/ \E l \in PageLines : RecvConnect("c1", l)
  \/ \E l \in PageLines : RecvUnsubscribe("c1", l)
  \/ \E l \in PageLines : RecvCapability("c1", l)
  \/ \E t \in 1..Len(tasks), msg \in CallMessages : CapabilityDone(t, msg)
  \/ \E t \in 1..Len(tasks) : CapabilityBackoff(t)
  \/ \E t \in 1..Len(tasks), Q \in Queries : CapabilityCandidates(t, Q)
  \/ \E l \in PageLines : RecvExecute("c1", l)
  \/ \E t \in 1..Len(tasks), o \in ExecuteOutcomes : ExecuteSettle(t, o)
  \/ \E t \in 1..Len(tasks) : ExecuteTimeout(t)
  \/ \E l \in PageLines : RecvDiff("c1", l)
  \/ \E t \in 1..Len(tasks), msg \in ShotMessages, fill \in BOOLEAN :
       DiffDone(t, msg, fill)
  \/ \E l \in PageLines : RecvDisconnect("c1", l)
  \/ \E t \in 1..Len(tasks) : DisconnectStep(t)
  \/ \E l \in PageLines : RecvScreenshot("c1", l)
  \/ \E t \in 1..Len(tasks), msg \in ShotMessages : ScreenshotDone(t, msg)
  \/ \E t \in 1..Len(tasks) : ScreenshotBackoff(t)
  \/ \E t \in 1..Len(tasks), Q \in Queries : ScreenshotCandidates(t, Q)

SpecPage == InitPage /\ [][NextPage]_vars

\* SpecCand: a selector request on a connected page showing any document
NextCand ==
  \/ \E l \in CandLines : RecvCapability("c1", l)
  \/ \E t \in 1..Len(tasks), msg \in CallMessages : CapabilityDone(t, msg)
  \/ \E t \in 1..Len(tasks), Q \in Queries : CapabilityCandidates(t, Q)

SpecCand == InitCand /\ [][NextCand]_vars

\* SpecExec: execute requests of a connected session, in real time
NextExec ==
  \/ \E l \in ExecLines : RecvExecute("c1", l)
  \/ \E t \in 1..Len(tasks), o \in ExecuteOutcomes : ExecuteSettle(t, o)
  \/ \E t \in 1..Len(tasks) : ExecuteTimeout(t)
  \/ ExecTick(ShortTimeoutMs)

SpecExec == InitExec /\ [][NextExec]_vars

NextDiff ==
  \/ \E c \in Conns, l \in DiffLines : RecvDiff(c, l) \/ RecvScreenshot(c, l)
  \/ \E t \in 1..Len(tasks), fill \in BOOLEAN :
       \/ DiffDone(t, "ok", fill)
       \/ DiffDone(t, "timeout", fill)
  \/ \E t \in 1..Len(tasks) : ScreenshotDone(t, "ok")
  \/ ClockTick
  \/ \E v \in Views : Repaint(v)

SpecDiff == InitDiff /\ [][NextDiff]_vars

NextPixel ==
  \/ \E c \in Conns, l \in PixelLines : RecvDiff(c, l)
  \/ \E t \in 1..Len(tasks), fill \in BOOLEAN : DiffDone(t, "ok", fill)

SpecPixel == InitPixel /\ [][NextPixel]_vars

\* SpecDom: a dom or context request on a page with any snapshot
NextDom ==
  \/ \E l \in DomLines : RecvCapability("c1", l)
  \/ \E t \in 1..Len(tasks), msg \in CallMessages : CapabilityDone(t, msg)

SpecDom == InitDom /\ [][NextDom]_vars

\* SpecHalt: daemon.stop from a connected session, among watch requests,
\* page events and timers
NextHalt ==
  \/ \E c \in Conns : handleConnection(c)
  \/ \E c \in Conns, l \in HaltLines : RecvDaemonStop(c, l)
  \/ \E c \in Conns, l \in HaltLines : RecvSubscribe(c, l)
  \/ \E c \in Conns, l \in HaltLines : RecvWatchConfigure(c, l)
  \/ \E t \in 1..Len(tasks) : StopStart(t)
  \/ \E t \in 1..Len(tasks) : StopStep(t)
  \/ \E t \in 1..Len(tasks) : StopExit(t)
  \/ \E type \in UiEventTypes, F \in FailSets : UiEvent(type, F)
  \/ DomMutation
  \/ \E F \in FailSets : FireQuiet(F)
  \/ \E F \in FailSets : FireMax(F)
  \/ LiveIntervalTick
  \/ \E ok \in BOOLEAN, F \in FailSets : LiveCaptureDone(ok, F)

SpecHalt == InitHalt /\ [][NextHalt]_vars

\* SpecClient: a DaemonClient sending requests and reading lines
NextClient ==
  \/ \E ok \in BOOLEAN : ClientConnect(ok)
  \/ \E id \in ClientIds : ClientSend(id)
  \/ \E l \in ClientLines : ClientData(l)
  \/ ClientClose
  \/ ClientDisconnect

SpecClient == InitClient /\ [][NextClient]_vars

\* ------------------------------------------------------------------ claims
\* the positions in its connection's output of the responses run t wrote
Responses(t) ==
  {i \in 1..Len(out[tasks[t].conn]) :
     /\ out[tasks[t].conn][i].kind = "resp"
     /\ out[tasks[t].conn][i].task = t}

ResponseOf(t) == out[tasks[t].conn][CHOOSE i \in Responses(t) : TRUE]

\* the id the response to run t must carry
ExpectedId(t) == IF tasks[t].line.kind = "badjson" THEN ReqUnknown
                 ELSE tasks[t].id

Received == Len(tasks') = Len(tasks) + 1

NewTask == tasks'[Len(tasks')]

\* C1: every line received on a connection, once its handler run has ended,
\* has exactly one response on that connection, carrying the request's id
\* (the sentinel id for a line that is not JSON).
C1_ExactlyOneResponse ==
  \A t \in 1..Len(tasks) :
    tasks[t].pc = "done" =>
      /\ Cardinality(Responses(t)) = 1
      /\ ResponseOf(t).id = ExpectedId(t)

\* C2: a line that is not valid JSON is answered in the same event with a
\* single Failure carrying the sentinel id and a 5xxx code; the connection
\* stays open and the daemon keeps running, so the lines after it are received.
C2_InvalidJsonAnswered ==
  /\ [](\A t \in 1..Len(tasks) :
          tasks[t].line.kind = "badjson" =>
            /\ Cardinality(Responses(t)) = 1
            /\ ResponseOf(t).ok = FALSE
            /\ ResponseOf(t).id = ReqUnknown
            /\ ResponseOf(t).code \in 5000..5999)
  /\ [][(Received /\ NewTask.line.kind = "badjson") =>
          /\ sock' = sock
          /\ connections' = connections
          /\ daemonUp' = daemonUp
          /\ NewTask.pc = "done"]_vars

\* C2's case: after an invalid line on a connection, a request on the same
\* connection was answered with its own id
C2_Witness ==
  \E t, u \in 1..Len(tasks) :
    /\ t < u
    /\ tasks[t].conn = tasks[u].conn
    /\ tasks[t].line.kind = "badjson"
    /\ tasks[u].line.kind = "req"
    /\ sock[tasks[u].conn] = "open"
    /\ Responses(u) # {}
    /\ ResponseOf(u).ok
    /\ ResponseOf(u).id = tasks[u].id
    /\ \A i \in Responses(t), j \in Responses(u) : i < j

Incompatible(l) == l.kind = "req" /\ ~isCompatible(l.ver, PROTOCOL_VERSION)

Compatible(l) == l.kind = "req" /\ isCompatible(l.ver, PROTOCOL_VERSION)

\* C3: a request with an incompatible protocol version is answered in the
\* same event with a 1006 Failure, and receiving it changes neither the
\* subscriber map nor anything a handler touches, whatever was received
\* before; a request with a compatible version never gets a 1006 Failure.
C3_VersionCheckedFirst ==
  /\ [](\A t \in 1..Len(tasks) :
          /\ Incompatible(tasks[t].line) =>
               /\ Cardinality(Responses(t)) = 1
               /\ ResponseOf(t).ok = FALSE
               /\ ResponseOf(t).code = PROTOCOL_VERSION_MISMATCH
               /\ ResponseOf(t).code \in 1000..1999
               /\ tasks[t].pc = "done"
          /\ Compatible(tasks[t].line) =>
               \A i \in Responses(t) :
                 out[tasks[t].conn][i].code # PROTOCOL_VERSION_MISMATCH)
  /\ [][(Received /\ Incompatible(NewTask.line)) =>
          UNCHANGED <<watchVars, fsWatcher, uiVars, browserVars, liveCaps,
                      daemonUp, connVars>>]_vars

\* C3's case: after a compatible request was answered on a connection, an
\* incompatible watch.subscribe, an incompatible watch.unsubscribe naming a
\* registered subscriber, or an incompatible connect got the 1006 Failure
C3_Witness ==
  \E t, u \in 1..Len(tasks) :
    /\ t < u
    /\ tasks[t].conn = tasks[u].conn
    /\ Compatible(tasks[t].line)
    /\ tasks[t].line.method = "watch.subscribe"
    /\ Incompatible(tasks[u].line)
    /\ tasks[u].line.method = "watch.subscribe"
    /\ Responses(u) # {}
    /\ ResponseOf(u).code = PROTOCOL_VERSION_MISMATCH
    /\ Cardinality(watchSubscribers) = 1

\* C10: every response is written to the connection of the request it
\* answers and carries that request's id, and a request that needs no
\* browser call is answered in the event that receives it, whatever handler
\* runs are suspended at that moment.
C10_ConcurrentHandling ==
  /\ [](\A c \in Conns : \A i \in 1..Len(out[c]) :
          out[c][i].kind = "resp" =>
            /\ out[c][i].task \in 1..Len(tasks)
            /\ tasks[out[c][i].task].conn = c
            /\ out[c][i].id = ExpectedId(out[c][i].task))
  /\ [][(Received /\ Compatible(NewTask.line) /\ NewTask.line.method = "ping") =>
          /\ NewTask.pc = "done"
          /\ out'[NewTask.conn] =
               Append(out[NewTask.conn],
                      successResponse(NewTask.id, Len(tasks'), 1))]_vars

\* C10's case: a later request has its response while an earlier request of
\* the same connection is still suspended, and the earlier one is answered
\* after it
C10_Witness ==
  \E t, u \in 1..Len(tasks) :
    /\ t < u
    /\ tasks[t].conn = tasks[u].conn
    /\ tasks[t].line.method = "connect"
    /\ Responses(t) # {}
    /\ Responses(u) # {}
    /\ ResponseOf(u).id = tasks[u].id
    /\ ResponseOf(t).id = tasks[t].id
    /\ \A i \in Responses(t), j \in Responses(u) : j < i

\* C4: at most one page opened by the session manager is live at any time.
C4_AtMostOnePageLive == Cardinality(pw.pages) <= 1

\* C5: while a burst is pending the max-wait timer is armed and elapses
\* exactly uiReadyMaxWaitMs after the burst's first signal, however many
\* signals reset the quiet-window timer; so no burst grows older than
\* uiReadyMaxWaitMs and every ui_ready is emitted at most uiReadyMaxWaitMs
\* after the first signal of its burst.
C5_ReadyWithinMaxWait ==
  /\ ~Idle => /\ uiReadyMaxTimer # Null
              /\ uiReadyMaxTimer + burstAge = uiReadyMaxWaitMs
              /\ uiReadyTimer # Null
              /\ uiReadyTimer <= uiReadyQuietWindowMs
  /\ burstAge <= uiReadyMaxWaitMs
  /\ lastFire.age <= uiReadyMaxWaitMs

\* C5's case: signals kept the quiet-window timer from elapsing and ui_ready
\* was emitted uiReadyMaxWaitMs after the first signal
C5_Witness ==
  /\ lastFire.n > 0
  /\ lastFire.age = uiReadyMaxWaitMs
  /\ Idle

Fired == lastFire'.n = lastFire.n + 1

\* C6 as stated: every burst ends with exactly one ui_ready emitted.
C6_ExactlyOnePerBurst == [][(~Idle /\ Idle') => burstReady' = 1]_vars

\* C6, amended: a burst produces at most one ui_ready.  The first timer to
\* elapse emits it and clears both timers, so the other timer emits nothing
\* for that burst; a burst whose timers a disconnect clears produces none.
C6_AtMostOnePerBurst ==
  /\ [](burstReady <= 1 /\ (Idle \/ burstReady = 0))
  /\ [][Fired => /\ ~Idle
                 /\ Idle'
                 /\ burstReady' = 1
                 /\ evSeq' = evSeq + 1
                 /\ lastEmit'.type = "ui_ready"]_vars
  /\ [][(~Idle /\ Idle') =>
          \/ Fired
          \/ /\ burstReady' = 0
             /\ bm'.page = NoObj
             /\ ~uiReadyObserverInstalled']_vars

\* C6's case: with both timers pending one of them elapsed, ui_ready was
\* emitted once and both timers are cleared
C6_Witness ==
  /\ lastFire.n > 0
  /\ burstReady = 1
  /\ Idle
  /\ lastEmit.type = "ui_ready"

\* the copies of event n written to connection c
Delivered(c, n) ==
  Cardinality({i \in 1..Len(out[c]) :
                 out[c][i].kind = "event" /\ out[c][i].val = n})

\* C7: an emitted event is written once for every subscriber registered at
\* the emission whose write does not fail, and exactly the subscribers whose
\* write failed are removed from the map.
C7_FanOut ==
  /\ [](lastEmit.n > 0 =>
          \A c \in Conns :
            Delivered(c, lastEmit.n) =
              Cardinality({s \in lastEmit.before \ lastEmit.failed :
                             s.socket = c}))
  /\ [][evSeq' # evSeq =>
          /\ lastEmit'.before = watchSubscribers
          /\ lastEmit'.n = evSeq'
          /\ watchSubscribers' = watchSubscribers \ lastEmit'.failed]_vars

\* C7's case: an event was emitted to two subscribers, the write to one of
\* them failed, the other received the event and is still registered
C7_Witness ==
  /\ lastEmit.n > 0
  /\ lastEmit.failed # {}
  /\ \E s \in lastEmit.before \ lastEmit.failed :
       /\ Delivered(s.socket, lastEmit.n) = 1
       /\ s \in watchSubscribers

\* C8: the map holds no subscriber whose connection has closed.
C8_NoSubscriberOnClosedConnection ==
  \A s \in watchSubscribers : sock[s.socket] # "closed"

\* C9: a step that removes the last subscriber leaves no polling timer
\* running.
C9_TimerStoppedWithLastSubscriber ==
  [][(watchSubscribers # {} /\ watchSubscribers' = {}) =>
       watchIntervalTimer' = Null]_vars

IsStop(t) == Compatible(tasks[t].line) /\ tasks[t].line.method = "daemon.stop"

\* C11: when the daemon.stop response is written stop() has not begun (it
\* waits in setImmediate and nothing of the daemon has changed), and stop()
\* begins only in a later event, with the response already written.
C11_ResponseBeforeStop ==
  /\ [][(Received /\ Compatible(NewTask.line)
           /\ NewTask.line.method = "daemon.stop") =>
          /\ NewTask.pc = "stop_imm"
          /\ out'[NewTask.conn] =
               Append(out[NewTask.conn],
                      successResponse(NewTask.id, Len(tasks'), 1))
          /\ UNCHANGED <<daemonUp, connVars, watchVars, fsWatcher, uiVars,
                         browserVars>>]_vars
  /\ [][\A t \in 1..Len(tasks) :
          (IsStop(t) /\ tasks[t].pc = "stop_imm" /\ tasks'[t].pc # "stop_imm")
            => /\ Responses(t) # {}
               /\ ResponseOf(t).ok]_vars
  /\ [][\A t \in 1..Len(tasks) :
          (IsStop(t) /\ tasks[t].pc # "stop_exit" /\ tasks'[t].pc = "stop_exit")
            => /\ Responses(t) # {}
               /\ connections' = {}]_vars

\* C11's case: stop() has destroyed the requesting connection, and the
\* {stopping:true} response had been written to it
C11_Witness ==
  \E t \in 1..Len(tasks) :
    /\ IsStop(t)
    /\ tasks[t].pc \in {"stop_exit", "done"}
    /\ sock[tasks[t].conn] = "closed"
    /\ Responses(t) # {}
    /\ ResponseOf(t).ok

IsDisconnect(l) == Compatible(l) /\ l.method = "disconnect"

Disconnected ==
  /\ bm.page = NoObj
  /\ bm.context = NoObj
  /\ ~fsWatcher
  /\ Idle
  /\ ~uiReadyObserverInstalled

\* C12: a disconnect request is never answered with a failure; received
\* when nothing is connected it is answered {disconnected:true} at once and
\* leaves the session as it was; and a disconnect that ends while no other
\* request is in flight leaves that same disconnected state.
C12_DisconnectIdempotent ==
  /\ [](\A t \in 1..Len(tasks) :
          IsDisconnect(tasks[t].line) =>
            /\ \A i \in Responses(t) : out[tasks[t].conn][i].ok
            /\ tasks[t].pc = "done" => Cardinality(Responses(t)) = 1
            /\ tasks[t].pc \in {"done", "d_page", "d_ctx"})
  /\ [][(Received /\ IsDisconnect(NewTask.line) /\ Disconnected) =>
          /\ NewTask.pc = "done"
          /\ out'[NewTask.conn] =
               Append(out[NewTask.conn],
                      successResponse(NewTask.id, Len(tasks'), 1))
          /\ UNCHANGED browserVars
          /\ Disconnected']_vars
  /\ [][\A t \in 1..Len(tasks) :
          (/\ IsDisconnect(tasks[t].line)
           /\ tasks[t].pc # "done"
           /\ tasks'[t].pc = "done"
           /\ \A u \in 1..Len(tasks) : u # t => tasks[u].pc = "done")
            => Disconnected' /\ ~isConnected(bm', pw')]_vars

\* C12's case: a disconnect closed the connected page, a second disconnect
\* followed it, and both were answered {disconnected:true}
C12_Witness ==
  /\ Len(tasks) = 3
  /\ IsDisconnect(tasks[2].line)
  /\ IsDisconnect(tasks[3].line)
  /\ tasks[2].pc = "done"
  /\ tasks[3].pc = "done"
  /\ tasks[3].tgt = NoObj
  /\ ResponseOf(2).ok
  /\ ResponseOf(3).ok
  /\ ResponseOf(2).val = ResponseOf(3).val
  /\ Disconnected
  /\ pw.pages = {}

IsConnect(t) == Compatible(tasks[t].line) /\ tasks[t].line.method = "connect"

\* the navigation attempts connect request t has begun
Attempts(t) == tasks[t].attempt + 1

\* C13: a connect request makes at most retries+1 navigation attempts; a
\* further attempt begins only from the backoff wait that follows a failure
\* whose message names a timeout, and an attempt that succeeds or fails with
\* any other message ends the request at once with its response.
C13_BoundedRetries ==
  /\ [](\A t \in 1..Len(tasks) : IsConnect(t) =>
          /\ Attempts(t) <= tasks[t].line.retries + 1
          /\ tasks[t].pc = "backoff" =>
                /\ tasks[t].msg \in TimeoutMessages
                /\ Attempts(t) <= tasks[t].line.retries)
  /\ [][\A t \in 1..Len(tasks) : IsConnect(t) =>
          /\ Attempts(t)' # Attempts(t) =>
                /\ Attempts(t)' = Attempts(t) + 1
                /\ tasks[t].pc = "backoff"
                /\ tasks'[t].pc # "backoff"
          /\ (tasks[t].pc = "goto" /\ tasks'[t].pc # "goto") =>
                /\ tasks'[t].pc \in {"backoff", "done"}
                /\ tasks'[t].msg \notin TimeoutMessages =>
                      /\ tasks'[t].pc = "done"
                      /\ Len(out'[tasks[t].conn]) = Len(out[tasks[t].conn]) + 1
                      /\ out'[tasks[t].conn][Len(out'[tasks[t].conn])].task = t]_vars

\* a connect request that timed out once, waited, and succeeded at its
\* second attempt
C13_Witness ==
  \E t \in 1..Len(tasks) :
    /\ IsConnect(t)
    /\ tasks[t].line.retries = 1
    /\ Attempts(t) = 2
    /\ tasks[t].pc = "done"
    /\ tasks[t].msg = "ok"
    /\ Responses(t) # {}
    /\ ResponseOf(t).ok

\* C14: a failed connect attempt is timeout-class exactly when its message
\* contains "timeout" in any letter case: it is then retried while attempts
\* remain and finally reported as NAVIGATION_TIMEOUT, and every other
\* failure is reported as NAVIGATION_FAILED.
C14_TimeoutAnyCase ==
  /\ [](\A t \in 1..Len(tasks) :
          (IsConnect(t) /\ tasks[t].pc = "done" /\ tasks[t].msg \notin {"", "ok"}) =>
            /\ Responses(t) # {}
            /\ ~ResponseOf(t).ok
            /\ ResponseOf(t).code =
                 IF tasks[t].msg \in TimeoutMessages THEN NAVIGATION_TIMEOUT
                 ELSE NAVIGATION_FAILED)
  /\ [][\A t \in 1..Len(tasks) :
          (IsConnect(t) /\ tasks[t].pc = "goto" /\ tasks'[t].pc # "goto"
             /\ tasks'[t].msg \in TimeoutMessages
             /\ Attempts(t) <= tasks[t].line.retries) =>
            tasks'[t].pc = "backoff"]_vars

\* the parameter of line l that is missing or not of its enumeration
BadParam(l) ==
  IF l.method = "connect" /\ ~l.url THEN "url"
  ELSE IF l.method = "connect" /\ l.eng \notin {"", "chromium", "firefox", "webkit"}
  THEN "browser"
  ELSE IF l.method = "execute" /\ ~l.code THEN "code"
  ELSE IF l.method \in {"styles", "describe"} /\ l.sel = <<>> THEN "selector"
  ELSE IF l.method = "a11y" /\ l.level \notin {"", "A", "AA", "AAA"} THEN "level"
  ELSE IF l.method = "watch.unsubscribe" /\ l.subId = 0 THEN "subscriberId"
  ELSE ""

\* the new run was answered within the event that received it by a 5xxx
\* Failure naming param, and the browser was not touched
RejectedFor(param) ==
  /\ NewTask.pc = "done"
  /\ Len(out'[NewTask.conn]) = Len(out[NewTask.conn]) + 1
  /\ LET r == out'[NewTask.conn][Len(out'[NewTask.conn])] IN
       /\ r.kind = "resp" /\ r.task = Len(tasks') /\ ~r.ok
       /\ r.code \in 5000..5999
       /\ r.param = param
  /\ UNCHANGED browserVars

\* C15 as stated: a request with a missing required parameter or an invalid
\* enum value is answered with a 5xxx Failure naming the parameter, with or
\* without a session, and no browser call is made.
C15_ParamErrorAlways ==
  [][(Received /\ Compatible(NewTask.line) /\ BadParam(NewTask.line) # "")
       => RejectedFor(BadParam(NewTask.line))]_vars

\* C15, amended: connect and watch.unsubscribe reject such a request with or
\* without a session; execute, styles, describe and a11y test the session
\* first, so they reject it with the 5xxx Failure naming the parameter when
\* a page is connected and with PAGE_NOT_READY when none is.  In neither
\* case is a browser call made.
C15_ParamErrorInSession ==
  [][(Received /\ Compatible(NewTask.line) /\ BadParam(NewTask.line) # "") =>
       IF NewTask.line.method \in {"connect", "watch.unsubscribe"}
          \/ isConnected(bm, pw)
       THEN RejectedFor(BadParam(NewTask.line))
       ELSE /\ NewTask.pc = "done"
            /\ out'[NewTask.conn] =
                 Append(out[NewTask.conn],
                        Failure(NewTask.id, Len(tasks'), PAGE_NOT_READY))
            /\ UNCHANGED browserVars]_vars

\* in a session, styles without a selector and a11y with a level outside
\* its enumeration were each rejected with the Failure naming the parameter
C15_Witness ==
  /\ Len(tasks) = 3
  /\ isConnected(bm, pw)
  /\ tasks[2].line.method = "styles" /\ BadParam(tasks[2].line) = "selector"
  /\ ResponseOf(2).code = INPUT_MISSING /\ ResponseOf(2).param = "selector"
  /\ tasks[3].line.method = "a11y" /\ BadParam(tasks[3].line) = "level"
  /\ ResponseOf(3).code = INPUT_ENUM_INVALID /\ ResponseOf(3).param = "level"

\* the capability requests: they need the connected page
IsCapability(l) ==
  /\ Compatible(l)
  /\ l.method \in {"screenshot.viewport", "screenshot.element", "styles", "dom",
                    "describe", "context", "a11y", "diff", "execute"}

BackoffPcs == {"shot_backoff", "call_backoff"}

\* C16: a capability request that finds no connected page, when it is
\* received or when a later attempt of its retry loop begins after a
\* disconnect, is answered with PAGE_NOT_READY and performs no browser
\* operation.
C16_NoPageIsPageNotReady ==
  /\ [][(Received /\ IsCapability(NewTask.line) /\ ~isConnected(bm, pw)) =>
          /\ NewTask.pc = "done"
          /\ out'[NewTask.conn] =
               Append(out[NewTask.conn],
                      Failure(NewTask.id, Len(tasks'), PAGE_NOT_READY))
          /\ UNCHANGED browserVars]_vars
  /\ [][\A t \in 1..Len(tasks) :
          (IsCapability(tasks[t].line) /\ tasks[t].pc \in BackoffPcs
             /\ tasks'[t].pc \notin BackoffPcs /\ ~isConnected(bm, pw)) =>
            /\ tasks'[t].pc = "done"
            /\ out'[tasks[t].conn] =
                 Append(out[tasks[t].conn],
                        Failure(tasks[t].id, t, PAGE_NOT_READY))
            /\ UNCHANGED browserVars]_vars

\* the handlers that take a selector
IsSelectorHandler(l) ==
  /\ Compatible(l)
  /\ l.method \in {"screenshot.viewport", "screenshot.element", "styles", "dom",
                    "describe", "context", "a11y"}

\* the message names a selector or locator failure, whatever else it holds
NamesSelector(msg) == "selector" \in MessageWords(msg) \/ "locator" \in MessageWords(msg)

\* C17: in a selector-dependent handler a failure of the browser call whose
\* message contains 'selector' or 'locator' leads to the candidate search
\* and the SELECTOR_NOT_FOUND Failure with param 'selector'.
C17_SelectorFailureIs3xxx ==
  [][\A t \in 1..Len(tasks) :
       (IsSelectorHandler(tasks[t].line) /\ tasks[t].pc \in {"shot", "call"}
          /\ tasks'[t].pc # tasks[t].pc /\ NamesSelector(tasks'[t].msg)) =>
         \/ tasks'[t].pc = "cand"
         \/ /\ tasks'[t].pc = "done"
            /\ Len(out'[tasks[t].conn]) = Len(out[tasks[t].conn]) + 1
            /\ LET r == out'[tasks[t].conn][Len(out'[tasks[t].conn])] IN
                 /\ r.task = t
                 /\ r.code = SELECTOR_NOT_FOUND
                 /\ r.param = "selector"]_vars

\* the run's failed selector names a class or an id
ClassOrId(t) == tasks[t].line.sel # <<>> /\ tasks[t].line.sel[1] \in {".", "#"}

\* run t was answered with the candidates of a search on the connected
\* page in which no count was rejected
Searched(t) ==
  /\ IsSelectorHandler(tasks[t].line)
  /\ tasks[t].pc = "done"
  /\ tasks[t].via # "throw"
  /\ NamesSelector(tasks[t].msg)
  /\ tasks[t].q.counts = {}
  /\ isConnected(bm, pw)
  /\ Responses(t) # {}
  /\ ResponseOf(t).code = SELECTOR_NOT_FOUND

InList(sel, list) == \E i \in DOMAIN list : list[i] = sel

\* the common selectors listed before button that match on the page
BeforeButton ==
  {COMMON_SELECTORS[i] : i \in 1..11} \cap pw.doc.els

\* C18 as stated: for a failed class or id selector on a page that contains
\* a button, the candidate list includes button whatever else the page holds.
C18_ButtonAlwaysListed ==
  \A t \in 1..Len(tasks) :
    (Searched(t) /\ ClassOrId(t) /\ (<<"button">>) \in pw.doc.els) =>
      InList(<<"button">>, ResponseOf(t).cands)

\* C18, amended: the candidate list holds at most 5 selectors, the matching
\* common selectors in the order of COMMON_SELECTORS first; on a page that
\* contains a button it includes button exactly when fewer than 5 of the
\* common selectors listed before button match on the page.
C18_ButtonListedUnlessCapped ==
  \A t \in 1..Len(tasks) :
    (Searched(t) /\ ClassOrId(t) /\ (<<"button">>) \in pw.doc.els) =>
      /\ Len(ResponseOf(t).cands) <= 5
      /\ InList(<<"button">>, ResponseOf(t).cands)
           <=> Cardinality(BeforeButton) < 5

\* a failed class selector answered with button after two common selectors
\* and before a similar class name
C18_Witness ==
  \E t \in 1..Len(tasks) :
    /\ Searched(t) /\ ClassOrId(t)
    /\ Len(ResponseOf(t).cands) = 4
    /\ ResponseOf(t).cands[3] = <<"button">>
    /\ ResponseOf(t).cands[4][1] = "."

\* C19: the candidate search never throws: a run that awaits it ends with
\* its SELECTOR_NOT_FOUND response, whichever page query fails.
C19_CandidatesNeverThrow ==
  [][\A t \in 1..Len(tasks) :
       (IsSelectorHandler(tasks[t].line) /\ tasks[t].pc = "cand"
          /\ tasks'[t].pc # "cand") =>
         /\ tasks'[t].via # "throw"
         /\ Len(out'[tasks[t].conn]) = Len(out[tasks[t].conn]) + 1
         /\ out'[tasks[t].conn][Len(out'[tasks[t].conn])].code = SELECTOR_NOT_FOUND
         /\ daemonUp']_vars

\* run t of execute reached the race between the script and the timer
Raced(t) ==
  /\ Compatible(tasks[t].line)
  /\ tasks[t].line.method = "execute"
  /\ tasks[t].pc = "race" \/ tasks[t].msg \in {"value", "error", "pending"}

\* C20: an execute request whose script has not settled within timeoutMs is
\* answered at the timeout with EXECUTE_TIMEOUT, the script still pending:
\* no run waits in the race beyond timeoutMs, a run answered for the timer
\* is answered at timeoutMs with 2008, and a run answered with the script's
\* outcome is answered within timeoutMs.
C20_ExecuteTimeoutAtTimeout ==
  \A t \in 1..Len(tasks) : Raced(t) =>
    /\ tasks[t].age <= executeTimeoutMs(tasks[t].line)
    /\ (tasks[t].pc = "done" /\ tasks[t].msg = "pending") =>
         /\ tasks[t].age = executeTimeoutMs(tasks[t].line)
         /\ Responses(t) # {}
         /\ ResponseOf(t).code = EXECUTE_TIMEOUT

\* a diff request whose since is neither absent, 'last' nor a timestamp
\* Date.parse reads
BadSince(l) ==
  /\ Compatible(l) /\ l.method = "diff"
  /\ l.since # <<>> /\ l.since # <<"last">>
  /\ DateParse(l.since) = NaN

\* C21: a diff request whose since is neither "last" nor a parseable
\* timestamp, received in a connected session, is answered with the Failure
\* INPUT_TIMESTAMP_INVALID naming the parameter since, and leaves the
\* baseline, the marker and every other file as they were.
C21_InvalidSinceIs5003 ==
  [][(Received /\ BadSince(NewTask.line) /\ isConnected(bm, pw)) =>
       /\ RejectedFor("since")
       /\ out'[NewTask.conn][Len(out'[NewTask.conn])].code
            = INPUT_TIMESTAMP_INVALID
       /\ UNCHANGED host]_vars

\* a diff request received in a connected session
IsDiff(l) == Compatible(l) /\ l.method = "diff"

\* the clock value a capture file was named with
stampOf(x) == CHOOSE n \in 1..Len(TimeTokens) : x = shotName(n)

\* the capture file with the greatest clock value among S, or null
latestOf(S) ==
  IF S = {} THEN NoPath
  ELSE CHOOSE x \in S : \A y \in S : stampOf(y) <= stampOf(x)

\* the baseline the precedence gives: for a timestamp, the latest capture
\* at or before it; else the marker's path if that file exists; else the
\* latest capture
expectedBaseline(files, marker, since) ==
  IF since # <<>> /\ since # <<"last">>
  THEN latestOf({x \in artifacts(files) : stampOf(x) <= DateParse(since)})
  ELSE IF marker /\ baselinePng \in DOMAIN files THEN baselinePng
  ELSE latestOf(artifacts(files))

\* C22: a diff request resolves its baseline by precedence: with an ISO
\* timestamp T, the latest capture file whose timestamp is at or before T;
\* with since absent or "last", the marker's path if that file exists;
\* otherwise the latest capture file other than baseline.png.
C22_BaselinePrecedence ==
  [][(Received /\ IsDiff(NewTask.line) /\ ~BadSince(NewTask.line)
        /\ isConnected(bm, pw)) =>
       NewTask.base =
         expectedBaseline(host.files, host.marker, NewTask.line.since)]_vars

\* run t, a diff, ends in this step after its capture succeeded
DiffEnds(t) ==
  /\ tasks[t].line.method = "diff"
  /\ tasks[t].pc = "diff" /\ tasks'[t].pc = "done" /\ tasks'[t].msg = "ok"

\* the response written in this step to the connection of run t
Written(t) == out'[tasks[t].conn][Len(out'[tasks[t].conn])]

\* C23: a diff for which no baseline resolved, once its capture has
\* succeeded in the connected session, is answered with success carrying
\* baselineInitialized true, mismatchedPixels 0 and no regions; the capture
\* is written as baseline.png and the marker records it.
C23_FirstDiffInitializes ==
  [][\A t \in 1..Len(tasks) :
       (DiffEnds(t) /\ tasks[t].base = NoPath /\ bm.page # NoObj) =>
         /\ Written(t).ok /\ Written(t).task = t
         /\ Written(t).res = [init |-> TRUE, pixels |-> 0, regions |-> <<>>]
         /\ host'.marker
         /\ baselinePng \in DOMAIN host'.files
         /\ host'.files[baselinePng] = host.view
         /\ host'.files[shotName(tasks[t].stamp)] = host.view]_vars

\* a first diff was answered: baseline.png holds what the page showed
C23_Witness ==
  \E t \in 1..Len(tasks) :
    /\ tasks[t].line.method = "diff" /\ tasks[t].pc = "done"
    /\ tasks[t].base = NoPath /\ tasks[t].msg = "ok"
    /\ ResponseOf(t).ok /\ ResponseOf(t).res.init
    /\ host.marker /\ baselinePng \in DOMAIN host.files

\* C24: after a successful diff the marker exists and baseline.png holds
\* the image that diff captured; and a diff with since absent or "last",
\* received after a diff succeeded, with the page not repainted between
\* that capture and its own, succeeds with mismatchedPixels 0.
C24_BaselineFollowsCapture ==
  [][\A t \in 1..Len(tasks) :
       /\ (DiffEnds(t) /\ Written(t).ok) =>
            /\ host'.marker
            /\ baselinePng \in DOMAIN host'.files
            /\ host'.files[baselinePng] = host.view
            /\ resolveBaselinePath(host'.files, host'.marker, <<>>).path
                 = baselinePng
       /\ (DiffEnds(t) /\ tasks[t].after /\ host.fresh /\ bm.page # NoObj
             /\ tasks[t].line.since \in {<<>>, <<"last">>}) =>
            /\ Written(t).ok
            /\ ~Written(t).res.init
            /\ Written(t).res.pixels = 0]_vars

\* two diffs in a row on an unchanged page: the second compared the capture
\* with the first one's and found no mismatch
C24_Witness ==
  \E s, t \in 1..Len(tasks) :
    /\ s < t
    /\ tasks[s].line.method = "diff" /\ tasks[s].pc = "done"
    /\ ResponseOf(s).ok /\ ResponseOf(s).res.init
    /\ tasks[t].line.method = "diff" /\ tasks[t].pc = "done"
    /\ tasks[t].after /\ tasks[t].base = baselinePng
    /\ ResponseOf(t).ok /\ ~ResponseOf(t).res.init
    /\ ResponseOf(t).res.pixels = 0

\* the baseline of run t and the page's rendering differ in dimensions
\* when the capture of t settles
DimensionsDiffer(t) ==
  /\ tasks[t].base # NoPath
  /\ tasks[t].base # shotName(tasks[t].stamp)
  /\ \/ host.files[tasks[t].base].w # host.view.w
     \/ host.files[tasks[t].base].h # host.view.h

\* C25: a diff whose baseline and capture differ in pixel dimensions is
\* answered with the Failure INTERNAL_ERROR; the marker, baseline.png and
\* the baseline file it resolved are left as they were, and nothing is
\* compared.
C25_DimensionMismatchFails ==
  [][\A t \in 1..Len(tasks) :
       (DiffEnds(t) /\ DimensionsDiffer(t)) =>
         /\ ~Written(t).ok /\ Written(t).task = t
         /\ Written(t).code = INTERNAL_ERROR
         /\ Written(t).res = NoResult
         /\ host'.marker = host.marker
         /\ (baselinePng \in DOMAIN host'.files)
              = (baselinePng \in DOMAIN host.files)
         /\ baselinePng \in DOMAIN host.files =>
              host'.files[baselinePng] = host.files[baselinePng]
         /\ host'.files[tasks[t].base] = host.files[tasks[t].base]]_vars

\* a diff failed on a capture whose dimensions are not the baseline's
C25_Witness ==
  \E t \in 1..Len(tasks) :
    /\ tasks[t].line.method = "diff" /\ tasks[t].pc = "done"
    /\ tasks[t].msg = "ok" /\ tasks[t].base = baselinePng
    /\ ~ResponseOf(t).ok /\ ResponseOf(t).code = INTERNAL_ERROR
    /\ host.files[baselinePng].w # host.files[shotName(tasks[t].stamp)].w

\* run t, a diff that called takeDiff's capture, ends in this step
DiffRunEnds(t) ==
  /\ tasks[t].line.method = "diff"
  /\ tasks[t].pc = "diff" /\ tasks'[t].pc = "done"

\* the manifest after the step is the manifest before it and one more line
OneLineAppended ==
  /\ Len(host'.manifest) = Len(host.manifest) + 1
  /\ SubSeq(host'.manifest, 1, Len(host.manifest)) = host.manifest

Compared(t) ==
  DiffEnds(t) /\ tasks[t].base # NoPath /\ Written(t).ok

\* the pixels of the baseline of run t that pixelmatch counts at threshold
\* th against what the page renders
MismatchedAt(t, th) ==
  {i \in 1..Len(host.view.px) :
     mismatched(host.files[tasks[t].base].px[i], host.view.px[i], th)}

\* C27: for the image pair a diff compared and its threshold t1, the count
\* it reports is not less than the count of the same pair at any threshold
\* t2 >= t1 and not greater than the count at any t2 <= t1.
C27_ThresholdMonotone ==
  [][\A t \in 1..Len(tasks) :
       Compared(t) =>
         \A th \in Thresholds :
           LET n == pixelmatch(host.files[tasks[t].base], host.view, th,
                               TRUE).count
               t1 == thresholdOf(tasks[t].line)
           IN /\ Written(t).res.pixels = Cardinality(MismatchedAt(t, t1))
              /\ t1 <= th => n <= Written(t).res.pixels
              /\ th <= t1 => Written(t).res.pixels <= n]_vars

\* a diff at threshold 0.9 counted some pixels of a 2 x 2 pair, not all
C27_Witness ==
  \E t \in 1..Len(tasks) :
    /\ tasks[t].line.method = "diff" /\ tasks[t].pc = "done"
    /\ tasks[t].line.thr = 9
    /\ ResponseOf(t).ok /\ ResponseOf(t).res.pixels \in 1..3

\* pixel i of an image of width w lies in box b
InBox(b, w, i) ==
  /\ b.x <= (i - 1) % w /\ (i - 1) % w < b.x + b.width
  /\ b.y <= (i - 1) \div w /\ (i - 1) \div w < b.y + b.height

\* C28: a diff that counts mismatched pixels returns exactly one region,
\* the bounding box of the pixels of the diff image with alpha > 0: it lies
\* inside the image, is at least 1 x 1, holds every such pixel and every
\* mismatched pixel and touches such a pixel on each side; a diff that
\* counts none returns no region.
C28_OneBoundingBox ==
  [][\A t \in 1..Len(tasks) :
       Compared(t) =>
         LET w == host.view.w
             h == host.view.h
             alpha == host'.diffs[diffName(tasks[t].stamp)]
             lit == {i \in 1..Len(alpha) : alpha[i] > 0}
             bad == MismatchedAt(t, thresholdOf(tasks[t].line))
             regions == Written(t).res.regions
         IN /\ Written(t).res.pixels = Cardinality(bad)
            /\ bad = {} => regions = <<>>
            /\ bad # {} =>
                 /\ Len(regions) = 1
                 /\ regions[1].x >= 0 /\ regions[1].y >= 0
                 /\ regions[1].width >= 1 /\ regions[1].height >= 1
                 /\ regions[1].x + regions[1].width <= w
                 /\ regions[1].y + regions[1].height <= h
                 /\ \A i \in lit \cup bad : InBox(regions[1], w, i)
                 /\ \E i \in lit : (i - 1) % w = regions[1].x
                 /\ \E i \in lit :
                      (i - 1) % w = regions[1].x + regions[1].width - 1
                 /\ \E i \in lit : (i - 1) \div w = regions[1].y
                 /\ \E i \in lit :
                      (i - 1) \div w = regions[1].y + regions[1].height - 1]_vars

\* a diff found one mismatched pixel, the last of the image, and returned
\* the 1 x 1 box at its coordinates
C28_Witness ==
  \E t \in 1..Len(tasks) :
    /\ tasks[t].line.method = "diff" /\ tasks[t].pc = "done"
    /\ ResponseOf(t).ok /\ ResponseOf(t).res.pixels = 1
    /\ ResponseOf(t).res.regions
         = <<[x |-> 1, y |-> 1, width |-> 1, height |-> 1]>>

\* the Failures written so far
Failures ==
  {r \in UNION {{out[c][i] : i \in 1..Len(out[c])} : c \in Conns} :
     r.kind = "resp" /\ ~r.ok}

Signalled(type) ==
  lastSignal'.flip # lastSignal.flip /\ lastSignal'.type = type

\* the quiet-window timer's time is up and ui_ready is emitted
QuietFired == Fired /\ uiReadyTimer = 0

\* C30 as stated: while a burst is pending, a mutation signal and an
\* hmr_start signal each restart the quiet-window timer, and the
\* quiet-window ui_ready comes a full quiet window after the last of them.
C30_SignalsRestartQuietWindow ==
  [][/\ (~Idle /\ (Signalled("mutation") \/ Signalled("hmr_start"))) =>
          uiReadyTimer' = uiReadyQuietWindowMs
     /\ (QuietFired /\ lastSignal.type \in {"mutation", "hmr_start"}) =>
          lastSignal.age >= uiReadyQuietWindowMs]_vars

\* C30: a mutation signal, an hmr_complete and a ui_changed event each
\* restart the quiet-window timer and leave a pending max-wait timer as it
\* is; an hmr_start event leaves both timers as they are; the quiet-window
\* ui_ready comes a full quiet window after the last mutation,
\* hmr_complete or ui_changed.
C30_RestartSignals ==
  [][/\ (Signalled("mutation") \/ Signalled("hmr_complete")
           \/ Signalled("ui_changed")) =>
          /\ uiReadyTimer' = uiReadyQuietWindowMs
          /\ uiReadyMaxTimer' = IF uiReadyMaxTimer = Null
                                THEN uiReadyMaxWaitMs ELSE uiReadyMaxTimer
     /\ Signalled("hmr_start") =>
          UNCHANGED <<uiReadyTimer, uiReadyMaxTimer>>
     /\ (QuietFired /\ lastSignal.type # "hmr_start") =>
          lastSignal.age = uiReadyQuietWindowMs]_vars

\* the quiet-window ui_ready of a burst was emitted less than a quiet window
\* after an hmr_start event
C30_Witness ==
  /\ Idle /\ lastFire.n > 0
  /\ lastFire.age = uiReadyQuietWindowMs
  /\ lastSignal.type = "hmr_start"
  /\ lastSignal.age < uiReadyQuietWindowMs

\* an event of the given type is emitted in this step
Emitted(type) == lastEmit'.n # lastEmit.n /\ lastEmit'.type = type

\* C31 as stated: a file-change event received while the UI-readiness
\* machine is idle, with a page connected, moves it to pending-quiet.
C31_FileChangeStartsBurst ==
  [][(Emitted("file_changed") /\ Idle /\ bm.page # NoObj) => ~Idle']_vars

\* C31: a file-change event is written to the subscribers and leaves the
\* UI-readiness machine as it is, idle included; an hmr_complete or a
\* ui_changed event received with a page connected moves it to
\* pending-quiet, with the quiet-window timer armed and the max-wait timer
\* armed or left pending.
C31_FileChangeLeavesIdle ==
  [][/\ Emitted("file_changed") =>
          /\ UNCHANGED uiVars
          /\ \A c \in Conns :
               Len(out'[c]) - Len(out[c]) =
                 Cardinality({s \in watchSubscribers' : s.socket = c})
     /\ ((Emitted("hmr_complete") \/ Emitted("ui_changed"))
           /\ bm.page # NoObj) =>
          /\ uiReadyTimer' = uiReadyQuietWindowMs
          /\ uiReadyMaxTimer' # Null
          /\ Idle => uiReadyMaxTimer' = uiReadyMaxWaitMs]_vars

\* a file-change event was the last event emitted, a subscriber received
\* it, a page is connected and the machine is idle
C31_Witness ==
  /\ lastEmit.type = "file_changed"
  /\ lastEmit.before \ lastEmit.failed # {}
  /\ bm.page # NoObj
  /\ Idle

\* the line a snapshot line is nested in: the nearest line before it with a
\* smaller indentation, 0 for a top-level line
RECURSIVE parentFrom(_, _, _)
parentFrom(lines, i, j) ==
  IF j = 0 THEN 0
  ELSE IF lines[j].indent < lines[i].indent THEN j
  ELSE parentFrom(lines, i, j - 1)

parentOf(lines, i) == parentFrom(lines, i, i - 1)

\* the level of a line in the indentation tree, 1 for a top-level line
RECURSIVE levelOf(_, _)
levelOf(lines, i) ==
  IF parentOf(lines, i) = 0 THEN 1 ELSE 1 + levelOf(lines, parentOf(lines, i))

RECURSIVE cutNode(_, _, _), cutChildren(_, _, _, _)

\* the node of line i in the indentation tree cut off below level d
cutNode(lines, d, i) ==
  DomNode(IF matchesNode(lines[i]) THEN lines[i].word ELSE "region",
          IF levelOf(lines, i) >= d THEN <<>>
          ELSE cutChildren(lines, d, i, i + 1))

\* the nodes of the lines from j on that are nested directly in line p
cutChildren(lines, d, p, j) ==
  IF j > Len(lines) THEN <<>>
  ELSE IF parentOf(lines, j) = p
  THEN <<cutNode(lines, d, j)>> \o cutChildren(lines, d, p, j + 1)
  ELSE cutChildren(lines, d, p, j + 1)

\* the indentation tree of the snapshot cut off below level d, under a
\* synthetic region root unless it has exactly one top-level item
cutTree(lines, d) ==
  LET top == cutChildren(lines, d, 0, 1)
  IN IF Len(top) = 1 THEN top[1] ELSE DomNode("region", top)

\* the successful responses to dom and context requests, with their lines
DomAnswers ==
  {<<r, tasks[r.task].line>> :
     r \in {x \in UNION {{out[c][i] : i \in 1..Len(out[c])} : c \in Conns} :
              x.kind = "resp" /\ x.ok /\ x.task \in DOMAIN tasks
              /\ usesSnapshot(tasks[x.task].line)}}

\* C32: for a depth bound d >= 1 the tree that dom returns is the
\* snapshot's indentation tree cut off below level d: no node deeper than
\* d, deeper lines left out and attached nowhere, a synthetic region root
\* only for a snapshot with more or fewer than one top-level item.
C32_DomIsCutTree ==
  \A a \in DomAnswers :
    depthOf(a[2]) >= 1 => a[1].root = cutTree(host.yaml, depthOf(a[2]))

\* C33: a dom or context request whose snapshot call succeeded is answered
\* whatever its depth: no run is left parsing the snapshot for ever and the
\* daemon keeps serving.
C33_DomAlwaysAnswered ==
  /\ daemonUp
  /\ \A t \in DOMAIN tasks : tasks[t].pc # "spin"

\* run t, a connect waiting for its page.goto, ends in this step with a
\* Failure
ConnectFails(t) ==
  /\ tasks[t].line.method = "connect"
  /\ tasks[t].pc = "goto"
  /\ tasks'[t].pc = "done"
  /\ Len(out'[tasks[t].conn]) = Len(out[tasks[t].conn]) + 1
  /\ ~out'[tasks[t].conn][Len(out'[tasks[t].conn])].ok

\* C34: when a connect request ends in a navigation Failure, the page its
\* last attempt opened is not left as the session's live page: it is not
\* the page isConnected() and status report on.
C34_FailedConnectLeavesNoPage ==
  [][\A t \in DOMAIN tasks :
       ConnectFails(t) =>
         ~(bm'.page = tasks[t].tgt /\ isConnected(bm', pw'))]_vars

\* C35: the live-screenshot polling timer is pending only while live mode
\* is enabled and at least one watch subscriber is registered.
C35_LiveTimerNeedsLiveAndSubscriber ==
  watchIntervalTimer # Null => watchLive /\ watchSubscribers # {}

\* a watch.configure request is received and answered with success in this
\* step, live mode being enabled afterwards
ConfiguredLive ==
  /\ Len(tasks') = Len(tasks) + 1
  /\ tasks'[Len(tasks')].line.method = "watch.configure"
  /\ tasks'[Len(tasks')].via = "dispatch"
  /\ watchLive'

\* C36: after a watch.configure request succeeds with live mode enabled,
\* the polling timer is pending with the period the response reports, also
\* when it was pending with another period before.
C36_ConfiguredIntervalTakesEffect ==
  [][ConfiguredLive =>
       /\ watchIntervalTimer' = watchIntervalMs'
       /\ out'[tasks'[Len(tasks')].conn][Len(out'[tasks'[Len(tasks')].conn])].val
            = watchIntervalTimer']_vars

\* a stop() run has completed
Stopped == \E t \in DOMAIN tasks : IsStop(t) /\ tasks[t].pc = "done"

\* C37: when stop() has completed, no UI-readiness timer and no polling
\* timer is pending and the subscriber map and the connection set are
\* empty, whatever arrived while stop() was waiting.
C37_StopLeavesNothingPending ==
  Stopped =>
    /\ Idle
    /\ watchIntervalTimer = Null
    /\ watchSubscribers = {}
    /\ connections = {}

\* a watch.unsubscribe request is received and handled in this step
Unsubscribing == Received /\ NewTask.via = "unsubscribe"

\* C38: a watch.unsubscribe request removes only a subscriber that was
\* created on the connection the request came in on.
C38_UnsubscribeOwnOnly ==
  [][Unsubscribing =>
       \A s \in watchSubscribers \ watchSubscribers' :
         s.socket = NewTask.conn]_vars

\* the lines from m to n that carry the id
Matching(id, m, n) ==
  {k \in m..n : k <= Len(daemonClient.rx)
                /\ daemonClient.rx[k].kind = "resp"
                /\ daemonClient.rx[k].id = id}

\* the promises resolved with line n
ResolvedBy(n) ==
  {p \in DOMAIN daemonClient.promises :
     \E k \in DOMAIN daemonClient.promises[p].settled :
       daemonClient.promises[p].settled[k] = Resolved(n)}

\* C39: every send() promise is settled at most once; one that is resolved
\* is resolved with a line carrying its request's id, received after the
\* request was sent, and a request pending on its own id is resolved with
\* the first such line; a line resolves at most one promise, and a line
\* without an id, with the id 'req_unknown' or that is no JSON resolves
\* none.
C39_SettledAtMostOnce ==
  /\ \A p \in DOMAIN daemonClient.promises :
       LET pr == daemonClient.promises[p] IN
       /\ Len(pr.settled) <= 1
       /\ \A n \in DOMAIN daemonClient.rx :
            p \in ResolvedBy(n) =>
              /\ n \in Matching(pr.id, pr.at + 1, n)
              /\ (\A q \in DOMAIN daemonClient.promises :
                    q # p => daemonClient.promises[q].id # pr.id)
                 => Matching(pr.id, pr.at + 1, n) = {n}
  /\ \A n \in DOMAIN daemonClient.rx :
       /\ Cardinality(ResolvedBy(n)) <= 1
       /\ (daemonClient.rx[n].kind # "resp"
            \/ daemonClient.rx[n].id = ReqUnknown) => ResolvedBy(n) = {}

\* one request was resolved with the line carrying its id, a second line
\* with that id and a watch event were read and resolved nothing, and
\* another request was rejected when the connection closed
C39_Witness ==
  /\ daemonClient.wire = "closed"
  /\ \E p, q \in DOMAIN daemonClient.promises :
       /\ daemonClient.promises[p].settled = <<Resolved(1)>>
       /\ daemonClient.promises[q].settled = <<Rejected>>
       /\ daemonClient.promises[q].at > 0
  /\ \E n \in 2..Len(daemonClient.rx) :
       /\ daemonClient.rx[n] = daemonClient.rx[1]
       /\ ResolvedBy(n) = {}
  /\ \E n \in DOMAIN daemonClient.rx : daemonClient.rx[n].kind = "event"

\* the clock values the captures in .canvas/screenshots were written at
WrittenAt == {n \in 1..MaxTime : shotName(n) \in artifacts(host.files)}

\* C40: the timestamp pickScreenshotAtOrBefore decodes from the name of a
\* screenshot written at instant t is t.
C40_NameDecodesToInstant ==
  \A n \in WrittenAt : parsedName(shotName(n)) = DateParse(toISOString(n))

====
